---- MODULE Spec2Model ----
(***************************************************************************)
(* Model of the DigiGlucose-Insight orchestration and inference core:      *)
(* backend/app/orchestrator.py, backend/app/agents.py,                     *)
(* backend/app/weekly_report.py, the send-verify-code endpoint of          *)
(* backend/app/api.py and the tables of backend/app/models.py they read    *)
(* and write.                                                              *)
(*                                                                         *)
(* Numbers.  Every float of the program is a fixed-point integer with      *)
(* 180 units per 1.0, so that one-decimal literals (3.9 = 702) and the     *)
(* division by 18.0 of the unit conversion are both exact.                 *)
(*                                                                         *)
(* Text.  A message is a sequence of characters.  Each Chinese character   *)
(* is written as one ASCII token (its pinyin, with a suffix where two      *)
(* characters share a reading); Latin letters, digits, "." and " " are     *)
(* themselves.  Substring tests and regex searches are computed on these   *)
(* sequences.                                                              *)
(***************************************************************************)
EXTENDS Integers, Sequences, FiniteSets, TLC

\* Python's None: in a string-valued place, and in a number-valued place (the
\* numbers of the program are never negative).
None == "none"
NoNum == 0 - 1

\* A decimal literal with one fractional digit, given in tenths: Num(39) is 3.9.
Num(tenths) == tenths * 18

-----------------------------------------------------------------------------
(* Text primitives                                                         *)

Digits == {"0", "1", "2", "3", "4", "5", "6", "7", "8", "9"}

DigitVal(c) ==
    CASE c = "0" -> 0 [] c = "1" -> 1 [] c = "2" -> 2 [] c = "3" -> 3
      [] c = "4" -> 4 [] c = "5" -> 5 [] c = "6" -> 6 [] c = "7" -> 7
      [] c = "8" -> 8 [] c = "9" -> 9

\* str.lower() on one character; only Latin capitals change.
LowerChar(c) ==
    CASE c = "G" -> "g" [] c = "I" -> "i" [] c = "M" -> "m" [] c = "L" -> "l"
      [] c = "D" -> "d" [] c = "H" -> "h" [] OTHER -> c

Lower(text) == [i \in 1..Len(text) |-> LowerChar(text[i])]

\* kw occurs in text starting at position i.
OccursAt(text, kw, i) ==
    /\ i >= 1
    /\ i + Len(kw) - 1 <= Len(text)
    /\ \A k \in 1..Len(kw) : text[i + k - 1] = kw[k]

\* Python's `kw in text`.
Contains(text, kw) == \E i \in 1..Len(text) : OccursAt(text, kw, i)

ContainsAny(text, kws) == \E kw \in kws : Contains(text, kw)

\* Characters str.isdigit() accepts and the pattern \d does not: the
\* superscript two.
OtherDigits == {"sup2"}

\* any(c.isdigit() for c in message)
HasDigit(text) == \E i \in 1..Len(text) : text[i] \in Digits \cup OtherDigits

\* Smallest position >= from where kw occurs, or 0.
FirstOccurrence(text, kw, from) ==
    LET hits == {i \in from..Len(text) : OccursAt(text, kw, i)}
    IN  IF hits = {} THEN 0 ELSE CHOOSE i \in hits : \A j \in hits : i <= j

\* re.search of a pattern lit1.*lit2.*...litn : the literals occur in order
\* without overlapping.  Taking each literal at its leftmost position leaves
\* the most room for the rest.
RECURSIVE SearchFrom(_, _, _)
SearchFrom(text, lits, from) ==
    IF lits = <<>> THEN TRUE
    ELSE LET p == FirstOccurrence(text, Head(lits), from)
         IN  /\ p # 0
             /\ SearchFrom(text, Tail(lits), p + Len(Head(lits)))

Search(text, lits) == SearchFrom(text, lits, 1)

SearchAny(text, patterns) == \E lits \in patterns : Search(text, lits)

\* End of the maximal run of digits starting at position i (i - 1 if none).
RECURSIVE DigitRunEnd(_, _)
DigitRunEnd(text, i) ==
    IF i <= Len(text) /\ text[i] \in Digits THEN DigitRunEnd(text, i + 1) ELSE i - 1

RECURSIVE DigitsValue(_, _, _)
DigitsValue(text, i, j) ==
    IF i > j THEN 0 ELSE DigitsValue(text, i, j - 1) * 10 + DigitVal(text[j])

RECURSIVE Pow10(_)
Pow10(n) == IF n = 0 THEN 1 ELSE 10 * Pow10(n - 1)

\* float() of the digits i..e1 and the fraction digits e1+2..e2 (none when
\* e2 = e1), with the last position of the match.
NumberParts(text, i, e1, e2) ==
    [end |-> e2,
     value |-> DigitsValue(text, i, e1) * 180
               + (IF e2 = e1 THEN 0
                  ELSE (DigitsValue(text, e1 + 2, e2) * 180) \div Pow10(e2 - e1 - 1))]

\* The fraction (?:\.\d+)? after the digits ending at e1: its last position,
\* e1 itself when there is none.
FractionEnd(text, e1) ==
    IF e1 + 2 <= Len(text) /\ text[e1 + 1] = "." /\ text[e1 + 2] \in Digits
    THEN DigitRunEnd(text, e1 + 2) ELSE e1

NumberFrom(text, i, e1) == NumberParts(text, i, e1, FractionEnd(text, e1))

\* The group (\d+(?:\.\d+)?) matched greedily at position i:
\* [end |-> last position of the match, value |-> float(group)].
\* Precondition: text[i] is a digit.
NumberAt(text, i) == NumberFrom(text, i, DigitRunEnd(text, i))

\* Position after skipping \s* from position i.
RECURSIVE SkipSpaces(_, _)
SkipSpaces(text, i) ==
    IF i <= Len(text) /\ text[i] = " " THEN SkipSpaces(text, i + 1) ELSE i

-----------------------------------------------------------------------------
(* Text extractors, agents.py                                              *)

W_mmol == <<"m", "m", "o", "l">>
W_mg == <<"m", "g">>
W_xuetang == <<"xue", "tang">>                      \* 血糖

\* Candidate matches of r"(\d+(?:\.\d+)?)\s*(?:mmol|mg)" with re.IGNORECASE:
\* the start positions where the number is followed by the unit.
UnitAt(text, after) ==
    \/ OccursAt(Lower(text), W_mmol, after)
    \/ OccursAt(Lower(text), W_mg, after)

UnitNumberStarts(text) ==
    {i \in 1..Len(text) :
        /\ text[i] \in Digits
        /\ UnitAt(text, SkipSpaces(text, NumberAt(text, i).end + 1))}

\* Candidate matches of r"血糖[是\s]*(\d+(?:\.\d+)?)": positions of the number.
RECURSIVE SkipIsOrSpace(_, _)
SkipIsOrSpace(text, i) ==
    IF i <= Len(text) /\ text[i] \in {"shi_is", " "}
    THEN SkipIsOrSpace(text, i + 1) ELSE i

DigitAt(text, n) == n <= Len(text) /\ text[n] \in Digits

LabeledNumberStarts(text) ==
    {SkipIsOrSpace(text, i + 2) : i \in
        {j \in 1..Len(text) :
            /\ OccursAt(text, W_xuetang, j)
            /\ DigitAt(text, SkipIsOrSpace(text, j + 2))}}

BareNumberStarts(text) == {i \in 1..Len(text) : text[i] \in Digits}

Leftmost(S) == CHOOSE i \in S : \A j \in S : i <= j

\* The start of the match of the first pattern that has one, 0 when none has.
FirstPatternStart(a, b, c) ==
    IF a # {} THEN Leftmost(a)
    ELSE IF b # {} THEN Leftmost(b)
    ELSE IF c # {} THEN Leftmost(c)
    ELSE 0

NumberValueOrNone(text, start) ==
    IF start = 0 THEN NoNum ELSE NumberAt(text, start).value

\* extract_glucose_value: the first pattern that matches anywhere wins, and
\* within it the leftmost match.  None when the text has no number.
extract_glucose_value(text) ==
    NumberValueOrNone(text,
        FirstPatternStart(UnitNumberStarts(text), LabeledNumberStarts(text),
                          BareNumberStarts(text)))

detect_unit(text) ==
    IF Contains(Lower(text), W_mg) THEN "mg/dL" ELSE "mmol/L"

\* A variant that converts nothing.
convert_glucose_unit_same(value, from_unit, to_unit) == value

convert_glucose_unit(value, from_unit, to_unit) ==
    IF from_unit = to_unit THEN value
    ELSE IF from_unit = "mg/dL" /\ to_unit = "mmol/L" THEN value \div 18
    ELSE IF from_unit = "mmol/L" /\ to_unit = "mg/dL" THEN value * 18
    ELSE value

infer_meal_type(hour) ==
    IF 6 <= hour /\ hour < 10 THEN "breakfast"
    ELSE IF 10 <= hour /\ hour < 14 THEN "lunch"
    ELSE IF 14 <= hour /\ hour < 18 THEN "snack"
    ELSE IF 18 <= hour /\ hour < 22 THEN "dinner"
    ELSE "other"

detect_meal_type_from_text(text) ==
    LET t == Lower(text)
    IN  IF \/ Contains(t, <<"zao", "can">>) \/ Contains(t, <<"zao", "fan">>)
           \/ Contains(t, <<"b", "r", "e", "a", "k", "f", "a", "s", "t">>)
        THEN "breakfast"
        ELSE IF \/ Contains(t, <<"wu", "can">>) \/ Contains(t, <<"wu", "fan">>)
                \/ Contains(t, <<"l", "u", "n", "c", "h">>)
        THEN "lunch"
        ELSE IF \/ Contains(t, <<"wan", "can">>) \/ Contains(t, <<"wan", "fan">>)
                \/ Contains(t, <<"d", "i", "n", "n", "e", "r">>)
        THEN "dinner"
        ELSE IF \/ Contains(t, <<"jia", "can">>)
                \/ Contains(t, <<"s", "n", "a", "c", "k">>)
        THEN "snack"
        ELSE None

\* extract_hours_after_meal: three patterns, first match wins.
\*   餐后[(\s]*(\d+(?:\.\d+)?)\s*小时 | (\d+(?:\.\d+)?)\s*小时[后] | (\d+(?:\.\d+)?)h
RECURSIVE SkipParenOrSpace(_, _)
SkipParenOrSpace(text, i) ==
    IF i <= Len(text) /\ text[i] \in {"(", " "}
    THEN SkipParenOrSpace(text, i + 1) ELSE i

HoursNumberAt(text, n) ==
    /\ n <= Len(text)
    /\ text[n] \in Digits
    /\ OccursAt(text, <<"xiao", "shi_hour">>, SkipSpaces(text, NumberAt(text, n).end + 1))

HoursAfterMealStarts1(text) ==
    {SkipParenOrSpace(text, j + 2) : j \in
        {k \in 1..Len(text) :
            /\ OccursAt(text, <<"can", "hou">>, k)
            /\ HoursNumberAt(text, SkipParenOrSpace(text, k + 2))}}

HoursAfterMealStarts2(text) ==
    {i \in 1..Len(text) :
        /\ text[i] \in Digits
        /\ OccursAt(text, <<"xiao", "shi_hour", "hou">>,
                    SkipSpaces(text, NumberAt(text, i).end + 1))}

HoursAfterMealStarts3(text) ==
    {i \in 1..Len(text) :
        /\ text[i] \in Digits
        /\ OccursAt(Lower(text), <<"h">>, NumberAt(text, i).end + 1)}

extract_hours_after_meal(text) ==
    NumberValueOrNone(text,
        FirstPatternStart(HoursAfterMealStarts1(text), HoursAfterMealStarts2(text),
                          HoursAfterMealStarts3(text)))

\* The four pattern tiers of detect_context_from_colloquial.  A pattern
\* a.*b.*c is the tuple of its literals.
W_ce == <<"ce">>                                     \* 测
W_shihou == <<"shi_hour", "hou_wait">>               \* 时候
W_meichifan == <<"mei", "chi", "fan">>               \* 没吃饭

fasting_keywords == {
    <<W_meichifan, W_shihou, W_ce>>,
    <<W_meichifan, W_ce>>,
    << <<"e_hungry">>, <<"yi_one", "wan", "shang">>, W_ce>>,
    << <<"e_hungry">>, <<"wan", "shang">>, W_ce>>,
    << <<"mei", "chi", "zao", "fan">>, W_ce>>,
    << <<"mei", "chi", "zao", "can">>, W_ce>>,
    << <<"du", "zi", "kong_empty">>, W_shihou, W_ce>>,
    << <<"du", "zi", "kong_empty">>, W_ce>>,
    << <<"kong_empty", "fu">> >>,
    << <<"f", "a", "s", "t", "i", "n", "g">> >>,
    << <<"e_hungry", "zhe">>, W_ce>>,
    << <<"kong_empty", "zhe">>, W_ce>> }

pre_meal_keywords == {
    << <<"chi", "fan", "qian">>, W_ce>>,
    << <<"zhun", "bei", "kai", "fan">>, W_shihou, W_ce>>,
    << <<"zhun", "bei", "kai", "fan">>, W_ce>>,
    << <<"mei", "chi", "fan", "zhi", "qian">>, W_ce>>,
    << <<"yao_want", "chi", "fan">>, <<"xian", "ce">> >>,
    << <<"can", "qian">> >>,
    << <<"p", "r", "e">>, <<"m", "e", "a", "l">> >>,
    << <<"fan", "qian">> >> }

post_meal_keywords == {
    << <<"chi", "wan_done">>, <<"fan", "hou">>, W_ce>>,
    << <<"gang", "chi", "wan_done">>, <<"fan">>, W_ce>>,
    << <<"chi", "bao">>, <<"dong", "xi">>, W_ce>>,
    << <<"chi", "bao">>, W_ce>>,
    << <<"yong", "can", "jie", "shu">>, W_ce>>,
    << <<"can", "hou">> >>,
    << <<"p", "o", "s", "t">>, <<"m", "e", "a", "l">> >>,
    << <<"fan", "hou">> >>,
    << <<"chi", "wan_done">>, W_ce>> }

random_keywords == {
    << <<"sui", "bian">>, W_shihou, W_ce>>,
    << <<"xiang", "qi_up", "lai">>, W_ce>>,
    << <<"mei", "gu", "ding", "shi_hour", "jian_between">>, W_ce>>,
    << <<"ren", "yi", "shi_hour", "hou_wait">>, W_ce>>,
    << <<"sui", "ji_chance">> >>,
    << <<"r", "a", "n", "d", "o", "m">> >>,
    << <<"sui", "bian">>, W_ce>>,
    << <<"ren", "yi">>, W_ce>> }

\* A variant that tries the tiers in the reverse order.
detect_context_random_first(text) ==
    LET t == Lower(text)
    IN  IF SearchAny(t, random_keywords) THEN "random"
        ELSE IF SearchAny(t, post_meal_keywords) THEN "post_meal"
        ELSE IF SearchAny(t, pre_meal_keywords) THEN "pre_meal"
        ELSE IF SearchAny(t, fasting_keywords) THEN "fasting"
        ELSE None

detect_context_from_colloquial(text) ==
    LET t == Lower(text)
    IN  IF SearchAny(t, fasting_keywords) THEN "fasting"
        ELSE IF SearchAny(t, pre_meal_keywords) THEN "pre_meal"
        ELSE IF SearchAny(t, post_meal_keywords) THEN "post_meal"
        ELSE IF SearchAny(t, random_keywords) THEN "random"
        ELSE None

-----------------------------------------------------------------------------
(* Intent and sentiment classification, orchestrator.py                    *)

Intents == {"record_glucose", "record_meal", "record_exercise",
            "record_medication", "ask_value_status", "weekly_report",
            "ask_education", "emotional_support", "risk_alert", "general"}

W_dan_xin == <<"dan", "xin">>                        \* 担心
W_jiao_lv == <<"jiao", "lv">>                        \* 焦虑
W_ju_sang == <<"ju", "sang">>                        \* 沮丧
W_kzbh == <<"kong", "zhi", "bu_not", "hao">>         \* 控制不好
W_you_gao_le == <<"you", "gao", "le">>               \* 又高了
W_shi_bai == <<"shi_lose", "bai">>                   \* 失败
W_shi_wang == <<"shi_lose", "wang">>                 \* 失望
W_kzdhh == <<"kong", "zhi", "de", "hen", "hao">>     \* 控制得很好
W_da_biao == <<"da", "biao">>                        \* 达标
W_kai_xin == <<"kai", "xin">>                        \* 开心
W_jin_bu == <<"jin", "bu_step">>                     \* 进步
W_shun_li == <<"shun", "li_benefit">>                \* 顺利

\* The keyword lists of _classify_intent (negative_keywords + positive_keywords).
intent_support_keywords ==
    {W_ju_sang, W_kzbh, W_you_gao_le, W_shi_bai, W_dan_xin, W_jiao_lv,
     W_kzdhh, W_da_biao, W_kai_xin, W_jin_bu}

\* The condition of each rule of _classify_intent.
IntentRule(message, intent) ==
    CASE intent = "record_glucose" ->
            /\ \/ Contains(message, W_xuetang)
               \/ Contains(message, <<"ce", "le">>)
               \/ Contains(message, <<"ce", "liang">>)
            /\ HasDigit(message)
      [] intent = "record_meal" ->
            \/ Contains(message, <<"chi", "le">>)
            \/ Contains(message, <<"yin", "shi_food">>)
            \/ /\ Contains(message, <<"can">>)
               /\ \/ Contains(message, <<"ji_record", "lu">>)
                  \/ Contains(message, <<"chi">>)
      [] intent = "record_exercise" ->
            \/ Contains(message, <<"yun", "dong_move">>)
            \/ Contains(message, <<"duan", "lian">>)
            \/ Contains(message, <<"pao", "bu_step">>)
            \/ Contains(message, <<"zou", "lu_road">>)
      [] intent = "record_medication" ->
            \/ Contains(message, <<"yong", "yao">>)
            \/ Contains(message, <<"chi", "yao">>)
            \/ Contains(message, <<"yao", "wu_thing">>)
      [] intent = "ask_value_status" ->
            /\ \/ Contains(message, <<"zen", "me", "yang">>)
               \/ Contains(message, <<"gao", "ma">>)
               \/ Contains(message, <<"di", "ma">>)
               \/ Contains(message, <<"zheng", "chang", "ma">>)
            /\ Contains(message, W_xuetang)
      [] intent = "weekly_report" ->
            \/ Contains(message, <<"zhou", "bao_report">>)
            \/ Contains(message, <<"zhe_this", "zhou">>)
            \/ Contains(message, <<"ben", "zhou">>)
            \/ Contains(message, <<"fu_again", "pan">>)
      [] intent = "ask_education" ->
            \/ Contains(message, <<"shi_is", "shen", "me">>)
            \/ Contains(message, <<"shen", "me", "yi", "si">>)
            \/ Contains(Lower(message), <<"g", "i">>)
            \/ Contains(message, <<"jie_untie", "shi_explain">>)
      [] intent = "emotional_support" ->
            ContainsAny(message, intent_support_keywords)
      [] intent = "risk_alert" ->
            \/ Contains(message, <<"di", "xue", "tang">>)
            \/ Contains(message, <<"gao", "xue", "tang">>)
            \/ Contains(message, <<"jin_urgent", "ji_urgent">>)
      [] OTHER -> TRUE

\* A variant that tries the meal rule before the glucose rule.
_classify_intent_meal_first(message) ==
    IF IntentRule(message, "record_meal") THEN "record_meal"
    ELSE IF IntentRule(message, "record_glucose") THEN "record_glucose"
    ELSE IF IntentRule(message, "record_exercise") THEN "record_exercise"
    ELSE IF IntentRule(message, "record_medication") THEN "record_medication"
    ELSE IF IntentRule(message, "ask_value_status") THEN "ask_value_status"
    ELSE IF IntentRule(message, "weekly_report") THEN "weekly_report"
    ELSE IF IntentRule(message, "ask_education") THEN "ask_education"
    ELSE IF IntentRule(message, "emotional_support") THEN "emotional_support"
    ELSE IF IntentRule(message, "risk_alert") THEN "risk_alert"
    ELSE "general"

\* The rules in the order of the `if ...: return` statements.
_classify_intent(message) ==
    IF IntentRule(message, "record_glucose") THEN "record_glucose"
    ELSE IF IntentRule(message, "record_meal") THEN "record_meal"
    ELSE IF IntentRule(message, "record_exercise") THEN "record_exercise"
    ELSE IF IntentRule(message, "record_medication") THEN "record_medication"
    ELSE IF IntentRule(message, "ask_value_status") THEN "ask_value_status"
    ELSE IF IntentRule(message, "weekly_report") THEN "weekly_report"
    ELSE IF IntentRule(message, "ask_education") THEN "ask_education"
    ELSE IF IntentRule(message, "emotional_support") THEN "emotional_support"
    ELSE IF IntentRule(message, "risk_alert") THEN "risk_alert"
    ELSE "general"

orch_anxious_keywords ==
    {W_dan_xin, <<"hai", "pa">>, W_jiao_lv, <<"jin_urgent", "zhang">>}
orch_negative_keywords ==
    {W_ju_sang, W_kzbh, W_you_gao_le, W_shi_bai, W_shi_wang}
orch_positive_keywords ==
    {W_kzdhh, W_da_biao, W_kai_xin, W_shun_li, W_jin_bu}

_detect_sentiment(message) ==
    LET t == Lower(message)
    IN  IF ContainsAny(t, orch_anxious_keywords) THEN "anxious"
        ELSE IF ContainsAny(t, orch_negative_keywords) THEN "negative"
        ELSE IF ContainsAny(t, orch_positive_keywords) THEN "positive"
        ELSE "neutral"

\* _extract_slots: a slot is present only when its extractor's result is
\* truthy (a value of 0 is dropped); detect_unit always returns a unit.
Truthy(x) == x # NoNum /\ x # 0

TruthyOrNone(x) == IF Truthy(x) THEN x ELSE NoNum

_extract_slots(message) ==
    [glucose_value |-> TruthyOrNone(extract_glucose_value(message)),
     unit |-> detect_unit(message),
     meal_type |-> detect_meal_type_from_text(message),
     hours_after_meal |-> TruthyOrNone(extract_hours_after_meal(message))]

-----------------------------------------------------------------------------
(* Emotional support, agents.py                                            *)

support_positive_keywords ==
    {W_kzdhh, W_da_biao, W_kai_xin, W_shun_li, W_jin_bu,
     <<"gai", "shan">>, <<"hao", "duo", "le">>, <<"cheng", "gong">>,
     <<"jian_firm", "chi_hold">>, <<"nu", "li_power">>, <<"jia_add", "you_oil">>}
support_negative_keywords ==
    {W_ju_sang, W_kzbh, W_you_gao_le, W_shi_bai, W_dan_xin, W_jiao_lv,
     W_shi_wang, <<"mei", "xiao_effect", "guo">>, <<"mei", "yong">>,
     <<"fang", "qi_abandon">>, <<"tai", "nan", "le">>}
support_anxious_keywords ==
    {W_dan_xin, <<"hai", "pa">>, W_jiao_lv, <<"jin_urgent", "zhang">>,
     <<"bu_not", "an">>, <<"kong_fear", "ju_fear">>}

\* The sentiment provide_support detects with its own keyword lists.
support_sentiment(text) ==
    LET t == Lower(text)
    IN  IF ContainsAny(t, support_anxious_keywords) THEN "anxious"
        ELSE IF ContainsAny(t, support_negative_keywords) THEN "negative"
        ELSE IF ContainsAny(t, support_positive_keywords) THEN "positive"
        ELSE "neutral"

\* provide_support: the empathy line is named by the sentiment it answers and
\* is the empty string for neutral; next_steps is empty only for neutral.
provide_support(text) ==
    LET s == support_sentiment(text)
    IN  [sentiment |-> s,
         empathy |-> IF s = "neutral" THEN "" ELSE "empathy:" \o s,
         encouragement |-> "encouragement:" \o s,
         next_steps |-> IF s = "neutral" THEN 0 ELSE 3]

-----------------------------------------------------------------------------
(* Risk classification and trend analysis, agents.py InstantAnalysisAgent   *)

\* f"{x:.1f}": the value rounded to tenths.
Format1f(x) == (x + 9) \div 18

\* A user's target columns are NoNum (NULL) or a number.
_get_target_range(user, context) ==
    IF context = "fasting"
    THEN IF Truthy(user.fasting_target_min) /\ Truthy(user.fasting_target_max)
         THEN <<user.fasting_target_min, user.fasting_target_max>>
         ELSE <<Num(44), Num(72)>>
    ELSE IF context = "post_meal"
    THEN IF Truthy(user.post_meal_target_max)
         THEN <<0, user.post_meal_target_max>>
         ELSE <<0, Num(100)>>
    ELSE <<Num(39), Num(111)>>

\* Suggestion lists; an entry is TRUE when its sentence contains the
\* suggestion word.
sugg_critical_low == <<FALSE, FALSE, FALSE, TRUE>>
sugg_critical_high == <<FALSE, FALSE, TRUE, TRUE>>
sugg_high == <<TRUE, FALSE, FALSE, TRUE>>
sugg_below_target == <<FALSE, FALSE>>
sugg_normal == <<FALSE, FALSE>>
sugg_above_target == <<FALSE, FALSE, FALSE>>

RiskResult(level, conclusion, value, suggestions) ==
    [risk_level |-> level, conclusion |-> conclusion,
     reasoning |-> <<conclusion, Format1f(value)>>, suggestions |-> suggestions]

\* A variant that tries the personal range before the fixed thresholds.
_assess_risk_range_first(value, target_min, target_max, context) ==
    IF target_min <= value /\ value <= target_max
    THEN RiskResult("normal", "in_target_range", value, sugg_normal)
    ELSE IF value < Num(39)
    THEN RiskResult("critical", "hypoglycemia_risk", value, sugg_critical_low)
    ELSE IF value >= Num(167)
    THEN RiskResult("critical", "very_high_risk", value, sugg_critical_high)
    ELSE IF value >= Num(111)
    THEN RiskResult("high", "high", value, sugg_high)
    ELSE IF value < target_min
    THEN RiskResult("moderate", "below_target", value, sugg_below_target)
    ELSE RiskResult("moderate", "above_target", value, sugg_above_target)

\* A variant whose in-range test joins the two bounds with `or`.
_assess_risk_or_range(value, target_min, target_max, context) ==
    IF value < Num(39)
    THEN RiskResult("critical", "hypoglycemia_risk", value, sugg_critical_low)
    ELSE IF value >= Num(167)
    THEN RiskResult("critical", "very_high_risk", value, sugg_critical_high)
    ELSE IF value >= Num(111)
    THEN RiskResult("high", "high", value, sugg_high)
    ELSE IF target_min <= value \/ value <= target_max
    THEN RiskResult("normal", "in_target_range", value, sugg_normal)
    ELSE IF value < target_min
    THEN RiskResult("moderate", "below_target", value, sugg_below_target)
    ELSE RiskResult("moderate", "above_target", value, sugg_above_target)

_assess_risk(value, target_min, target_max, context) ==
    IF value < Num(39)
    THEN RiskResult("critical", "hypoglycemia_risk", value, sugg_critical_low)
    ELSE IF value >= Num(167)
    THEN RiskResult("critical", "very_high_risk", value, sugg_critical_high)
    ELSE IF value >= Num(111)
    THEN RiskResult("high", "high", value, sugg_high)
    ELSE IF value < target_min
    THEN RiskResult("moderate", "below_target", value, sugg_below_target)
    ELSE IF target_min <= value /\ value <= target_max
    THEN RiskResult("normal", "in_target_range", value, sugg_normal)
    ELSE RiskResult("moderate", "above_target", value, sugg_above_target)

RECURSIVE SumValues(_)
SumValues(rows) ==
    IF rows = <<>> THEN 0 ELSE Head(rows).value + SumValues(Tail(rows))

\* The rows of a GlucoseReading query: user, timestamp >= since, and the
\* context filter that `if context:` adds.
ReadingsSince(rds, user_id, since, context) ==
    SelectSeq(rds, LAMBDA r :
        /\ r.user_id = user_id
        /\ r.timestamp >= since
        /\ (context # None => r.context = context))

HoursPerDay == 24

\* A variant that never filters by context.
_analyze_trend_any_context(rds, user_id, current_value, context, t) ==
    LET recent == ReadingsSince(rds, user_id, t - 7 * HoursPerDay, None)
        n == Len(recent)
        total == SumValues(recent)
    IN  IF n < 2
        THEN [direction |-> "insufficient_data", average |-> NoNum, period |-> None]
        ELSE [direction |->
                 IF current_value * n * 10 > total * 11 THEN "up"
                 ELSE IF current_value * n * 10 < total * 9 THEN "down"
                 ELSE "stable",
              average |-> total \div n, period |-> "7d"]

\* _analyze_trend.  current > avg * 1.1 is compared as
\* current * n * 10 > sum * 11, and the average is kept to 1/180.  The
\* comparison is the one of the decimal numbers: a current value exactly
\* 10% off the average, where the rounding of the floats decides in the
\* program, is stable here.
_analyze_trend(rds, user_id, current_value, context, t) ==
    LET recent == ReadingsSince(rds, user_id, t - 7 * HoursPerDay, context)
        n == Len(recent)
        total == SumValues(recent)
    IN  IF n < 2
        THEN [direction |-> "insufficient_data", average |-> NoNum, period |-> None]
        ELSE [direction |->
                 IF current_value * n * 10 > total * 11 THEN "up"
                 ELSE IF current_value * n * 10 < total * 9 THEN "down"
                 ELSE "stable",
              average |-> total \div n, period |-> "7d"]

\* func.avg over a window: NULL on no rows; `if avg:` also drops an average of 0.
WindowAverage(rds, user_id, context, t, days) ==
    LET rows == ReadingsSince(rds, user_id, t - days * HoursPerDay, context)
    IN  IF Len(rows) = 0 THEN NoNum ELSE SumValues(rows) \div Len(rows)

_compare_with_history(rds, user_id, current_value, context, t) ==
    LET a7 == WindowAverage(rds, user_id, context, t, 7)
        a14 == WindowAverage(rds, user_id, context, t, 14)
        a30 == WindowAverage(rds, user_id, context, t, 30)
    IN  IF Truthy(a7) THEN [period |-> "7d", average |-> a7]
        ELSE IF Truthy(a14) THEN [period |-> "14d", average |-> a14]
        ELSE IF Truthy(a30) THEN [period |-> "30d", average |-> a30]
        ELSE [period |-> "7d", average |-> NoNum]

-----------------------------------------------------------------------------
(* State                                                                   *)

VARIABLES
    users,          \* users table: user id -> target columns
    readings,       \* glucose_readings rows, id = position
    events,         \* analysis_events rows, id = position
    convStates,     \* conversation_states rows, id = position
    meals,          \* meal_entries rows
    exercises,      \* exercise_records rows
    medications,    \* medication_records rows
    weeklyReports,  \* weekly_reports rows
    now,            \* datetime.utcnow(), in hours since a Monday 00:00 UTC
    pc,             \* per request worker: where its process_message call stands
    turn,           \* per request worker: the locals of its process_message call
    out,            \* per request worker: what its last call returned or raised
    ops,            \* how many requests, direct calls, faults and clock steps happened
    call,           \* the last call of a pure function: its arguments and result
    minute,         \* datetime.utcnow(): the minutes past the hour `now`
    verifyCodes,    \* email_verify_codes rows
    mails           \* the verification mails that were sent: address, code, minute

vars == <<users, readings, events, convStates, meals, exercises, medications,
          weeklyReports, now, pc, turn, out, ops, call, minute, verifyCodes,
          mails>>

\* The clock of the minutes and what the registration endpoints keep.
auth == <<minute, verifyCodes, mails>>

tables == <<readings, events, convStates, meals, exercises, medications,
            weeklyReports>>

\* Bound of the model: the number of requests, direct calls, failing commits
\* and clock steps of a run.
MaxOps == 3

UserIds == {1, 2}
SessionIds == {"s1", "s2"}
MainSession == "s1"
Procs == {1, 2}

NoTargets ==
    [fasting_target_min |-> NoNum, fasting_target_max |-> NoNum,
     post_meal_target_max |-> NoNum]
PersonalTargets ==
    [fasting_target_min |-> Num(50), fasting_target_max |-> Num(65),
     post_meal_target_max |-> Num(85)]

\* The messages users send.
M_fasting_4_0 == <<"kong_empty", "fu", "xue", "tang", "4", ".", "0">>   \* 空腹血糖4.0
M_12_5_worried == <<"xue", "tang", "1", "2", ".", "5", "dan", "xin">>  \* 血糖12.5担心
M_how_is_it == <<"xue", "tang", "zen", "me", "yang">>                  \* 血糖怎么样
M_frustrated == <<"wo", "hen", "ju", "sang">>                          \* 我很沮丧
M_ate_rice == <<"chi", "le", "mi", "fan">>                             \* 吃了米饭
M_running == <<"pao", "bu_step">>                                      \* 跑步
M_medicine == <<"chi", "yao">>                                         \* 吃药
M_weekly == <<"ben", "zhou", "fu_again", "pan">>                       \* 本周复盘
M_what_is_gi == <<"G", "I", "shi_is", "shen", "me">>                   \* GI是什么
M_hypo == <<"di", "xue", "tang">>                                      \* 低血糖
M_afraid == <<"hai", "pa">>                                            \* 害怕
M_superscript == <<"xue", "tang", "sup2">>                             \* 血糖²
M_108_mg == <<"xue", "tang", "1", "0", "8", "m", "g">>                 \* 血糖108mg
M_measured_5_5 == <<"ce", "le", "5", ".", "5">>                        \* 测了5.5
M_post_7_0 == <<"p", "o", "s", "t", " ", "7", ".", "0">>               \* post 7.0

Corpus == {M_fasting_4_0, M_12_5_worried, M_how_is_it, M_frustrated, M_ate_rice,
           M_running, M_medicine, M_weekly, M_what_is_gi, M_hypo, M_afraid}

IdleTurn == [user_id |-> 0]

Init ==
    /\ users = (1 :> NoTargets) @@ (2 :> PersonalTargets)
    /\ readings = <<>>
    /\ events = <<>>
    /\ convStates = <<>>
    /\ meals = <<>>
    /\ exercises = <<>>
    /\ medications = <<>>
    /\ weeklyReports = <<>>
    /\ now = 8
    /\ pc = [p \in Procs |-> "idle"]
    /\ turn = [p \in Procs |-> IdleTurn]
    /\ out = [p \in Procs |-> [status |-> "none"]]
    /\ ops = 0
    /\ minute = 0
    /\ verifyCodes = <<>>
    /\ mails = <<>>
    /\ call = [kind |-> "none"]

-----------------------------------------------------------------------------
(* Reply fragments                                                         *)

W_jianyi == <<"jian_build", "yi_discuss">>          \* 建议

\* One element of reply_parts: which text it is, and whether that text
\* contains the suggestion word.  text = "" is the empty string.
Fragment(kind, text, advice) == [kind |-> kind, text |-> text, advice |-> advice]

\* _format_analysis: the conclusion line, the reasoning, the suggestion header
\* and list when the list is non-empty, the trend message.
_format_analysis(analysis) ==
    Fragment("analysis", analysis.conclusion, Len(analysis.suggestions) > 0)

-----------------------------------------------------------------------------
(* DataLoggingAgent.log_glucose, agents.py                                 *)

HourOf(t) == t % HoursPerDay

\* `a if a is not None else b`, for strings and for numbers.
OrElse(a, b) == IF a # None THEN a ELSE b
OrElseNum(a, b) == IF a # NoNum THEN a ELSE b

\* The standard keywords log_glucose tries when no colloquial tier matched.
LogKeywordContext(text, hours_after_meal) ==
    IF \/ Contains(text, <<"kong_empty", "fu">>)
       \/ Contains(Lower(text), <<"f", "a", "s", "t", "i", "n", "g">>)
    THEN "fasting"
    ELSE IF \/ Contains(text, <<"can", "hou">>)
            \/ Contains(Lower(text), <<"p", "o", "s", "t">>)
            \/ hours_after_meal # NoNum
    THEN "post_meal"
    ELSE IF \/ Contains(text, <<"can", "qian">>)
            \/ Contains(Lower(text), <<"p", "r", "e">>)
    THEN "pre_meal"
    ELSE None

\* The context found in the text: the colloquial tier, else the keywords,
\* with whether the post_meal keyword branch was the one taken.
LogTextContext(colloquial, keyword) ==
    [context |-> OrElse(colloquial, keyword),
     viaPost |-> colloquial = None /\ keyword = "post_meal"]

\* A variant that never looks at the hour.
InferContextNoHour(text, t, tc, hours_after_meal) ==
    [context |-> IF tc.context # None THEN tc.context ELSE "random",
     hours_after_meal |-> IF tc.viaPost /\ hours_after_meal = NoNum
                          THEN extract_hours_after_meal(text)
                          ELSE hours_after_meal,
     missing_info |->
        (IF /\ tc.viaPost
            /\ hours_after_meal = NoNum
            /\ extract_hours_after_meal(text) = NoNum
         THEN <<"hours_after_meal">> ELSE <<>>)
        \o (IF tc.context = None THEN <<"context">> ELSE <<>>)]

\* The inference `if context is None:` runs: text, then the hour of the
\* timestamp; the hours and the missing-info notes it produces.
InferContext(text, t, tc, hours_after_meal) ==
    [context |-> IF tc.context # None THEN tc.context
                 ELSE IF HourOf(t) < 10 THEN "fasting" ELSE "random",
     hours_after_meal |-> IF tc.viaPost /\ hours_after_meal = NoNum
                          THEN extract_hours_after_meal(text)
                          ELSE hours_after_meal,
     missing_info |->
        (IF /\ tc.viaPost
            /\ hours_after_meal = NoNum
            /\ extract_hours_after_meal(text) = NoNum
         THEN <<"hours_after_meal">> ELSE <<>>)
        \o (IF tc.context = None /\ HourOf(t) >= 10 THEN <<"context">> ELSE <<>>)]

ContextPlan(text, t, context, hours_after_meal) ==
    IF context # None
    THEN [context |-> context, hours_after_meal |-> hours_after_meal,
          missing_info |-> <<>>]
    ELSE InferContext(text, t,
            LogTextContext(detect_context_from_colloquial(text),
                           LogKeywordContext(text, hours_after_meal)),
            hours_after_meal)

\* A variant that saves only when nothing is missing.
PlanOfComplete(value, unit, meal_type, cp) ==
    [found |-> value # NoNum /\ cp.missing_info = <<>>, value |-> value, unit |-> unit,
     value_mmol |-> IF value # NoNum /\ unit = "mg/dL"
                    THEN convert_glucose_unit(value, "mg/dL", "mmol/L")
                    ELSE value,
     context |-> cp.context, meal_type |-> meal_type,
     hours_after_meal |-> cp.hours_after_meal, missing_info |-> cp.missing_info]

PlanOf(value, unit, meal_type, cp) ==
    [found |-> value # NoNum, value |-> value, unit |-> unit,
     value_mmol |-> IF value # NoNum /\ unit = "mg/dL"
                    THEN convert_glucose_unit(value, "mg/dL", "mmol/L")
                    ELSE value,
     context |-> cp.context, meal_type |-> meal_type,
     hours_after_meal |-> cp.hours_after_meal, missing_info |-> cp.missing_info]

\* Everything log_glucose computes before it opens the database session.
\* unit, context, meal_type and hours_after_meal are the overrides (None, or
\* NoNum for the hours, when not given).
LogGlucosePlan(text, t, unit, context, meal_type, hours_after_meal) ==
    PlanOf(extract_glucose_value(text),
           OrElse(unit, detect_unit(text)),
           OrElse(meal_type,
                  OrElse(detect_meal_type_from_text(text), infer_meal_type(HourOf(t)))),
           ContextPlan(text, t, context, hours_after_meal))

\* The row log_glucose adds.
NewReading(user_id, plan, t) ==
    [user_id |-> user_id, value |-> plan.value_mmol, unit |-> "mmol/L",
     timestamp |-> t, context |-> plan.context, meal_type |-> plan.meal_type,
     hours_after_meal |-> plan.hours_after_meal,
     risk_level |-> None, analysis_notes |-> <<>>]

\* A variant whose failure dict names nothing as missing.
LogGlucoseResultSilent(plan, reading_id) ==
    [success |-> plan.found,
     message |-> IF plan.found THEN "recorded" ELSE "no_value",
     reading_id |-> IF plan.found THEN reading_id ELSE NoNum,
     value |-> plan.value_mmol, unit |-> IF plan.found THEN "mmol/L" ELSE None,
     context |-> None,
     missing_info |-> IF plan.found THEN plan.missing_info ELSE <<>>]

\* The dict log_glucose returns: success, message, reading_id, value, unit and
\* missing_info; it has no "context" key.
LogGlucoseResult(plan, reading_id) ==
    IF plan.found
    THEN [success |-> TRUE, message |-> "recorded", reading_id |-> reading_id,
          value |-> plan.value_mmol, unit |-> "mmol/L", context |-> None,
          missing_info |-> plan.missing_info]
    ELSE [success |-> FALSE, message |-> "no_value", reading_id |-> NoNum,
          value |-> NoNum, unit |-> None, context |-> None,
          missing_info |-> <<"glucose_value">>]

\* The context _handle_record_glucose works out from the standard keywords.
HandleKeywordContext(message, hours) ==
    IF \/ Contains(message, <<"kong_empty", "fu">>)
       \/ Contains(Lower(message), <<"f", "a", "s", "t", "i", "n", "g">>)
    THEN "fasting"
    ELSE IF Contains(message, <<"can", "hou">>) \/ hours # NoNum
    THEN "post_meal"
    ELSE IF \/ Contains(message, <<"can", "qian">>)
            \/ Contains(Lower(message), <<"p", "r", "e">>)
    THEN "pre_meal"
    ELSE None

\* The override arguments _handle_record_glucose passes to log_glucose.
HandleArgsWith(message, slots, hours) ==
    [unit |-> slots.unit,
     meal_type |-> OrElse(slots.meal_type, detect_meal_type_from_text(message)),
     hours_after_meal |-> hours,
     context |-> OrElse(detect_context_from_colloquial(message),
                        HandleKeywordContext(message, hours))]

HandleRecordGlucoseArgs(message, slots) ==
    HandleArgsWith(message, slots,
        OrElseNum(slots.hours_after_meal, extract_hours_after_meal(message)))

-----------------------------------------------------------------------------
(* InstantAnalysisAgent.analyze_glucose, agents.py                         *)

\* What analyze_glucose computes from the tables it reads.  `if context:`
\* in the queries treats None like no filter.
AnalysisOf(user_id, current_value, context, rds, t) ==
    IF user_id \notin DOMAIN users
    THEN [risk_level |-> "unknown", conclusion |-> "user_not_found",
          reasoning |-> <<>>, suggestions |-> <<>>,
          trend |-> [direction |-> None, average |-> NoNum, period |-> None],
          comparison |-> [period |-> None, average |-> NoNum],
          range |-> <<NoNum, NoNum>>]
    ELSE LET range == _get_target_range(users[user_id], context)
             risk == _assess_risk(current_value, range[1], range[2], context)
         IN  [risk_level |-> risk.risk_level, conclusion |-> risk.conclusion,
              reasoning |-> risk.reasoning, suggestions |-> risk.suggestions,
              trend |-> _analyze_trend(rds, user_id, current_value, context, t),
              comparison |-> _compare_with_history(rds, user_id, current_value, context, t),
              range |-> range]

\* A variant that writes for any user id.
AnalysisPersistsAnyUser(user_id, reading_id) == Truthy(reading_id)

\* `if reading_id:` writes only for a known user and a truthy reading id.
AnalysisPersists(user_id, reading_id) ==
    user_id \in DOMAIN users /\ Truthy(reading_id)

NewAnalysisEvent(user_id, reading_id, a, t) ==
    [user_id |-> user_id, glucose_reading_id |-> reading_id,
     risk_level |-> a.risk_level, conclusion |-> a.conclusion,
     reasoning |-> a.reasoning, suggestions |-> a.suggestions,
     trend_direction |-> a.trend.direction,
     comparison_period |-> a.comparison.period,
     average_value |-> a.comparison.average,
     timestamp |-> t, notified |-> FALSE]

\* A variant that writes the tier onto every reading of the user.
ReadingsAfterAnalysisAll(rds, reading_id, a) ==
    IF reading_id \in 1..Len(rds)
    THEN [i \in 1..Len(rds) |->
             IF rds[i].user_id = rds[reading_id].user_id
             THEN [rds[i] EXCEPT !.risk_level = a.risk_level,
                                 !.analysis_notes = a.reasoning]
             ELSE rds[i]]
    ELSE rds

\* The reading row analyze_glucose updates: the one with that id, whoever
\* owns it, when it exists.
ReadingsAfterAnalysis(rds, reading_id, a) ==
    IF reading_id \in 1..Len(rds)
    THEN [rds EXCEPT ![reading_id].risk_level = a.risk_level,
                     ![reading_id].analysis_notes = a.reasoning]
    ELSE rds

-----------------------------------------------------------------------------
(* OrchestratorAgent.process_message, orchestrator.py                      *)

\* json.dumps(slots): the keys that are present, with their values.
DumpSlots(slots) ==
    {<<k, slots[k]>> : k \in {f \in {"glucose_value", "hours_after_meal"} : slots[f] # NoNum}}
    \cup {<<k, slots[k]>> : k \in {f \in {"unit", "meal_type"} : slots[f] # None}}

\* A variant whose query matches no row.
FirstConvStateNone(rows, user_id, session_id) == 0

\* db.query(ConversationState).filter(user_id, session_id).first(): the id of
\* the first matching row, 0 when there is none.
FirstConvState(rows, user_id, session_id) ==
    LET hits == {i \in 1..Len(rows) :
                    rows[i].user_id = user_id /\ rows[i].session_id = session_id}
    IN  IF hits = {} THEN 0 ELSE Leftmost(hits)

\* list.insert(1, x)
InsertAt1(parts, x) ==
    IF Len(parts) = 0 THEN <<x>>
    ELSE <<Head(parts)>> \o <<x>> \o Tail(parts)

\* Steps 6 to 8 of process_message: the empathy line on a negative sentiment,
\* the join of the non-empty fragments, the disclaimer.
Disclaimer == Fragment("disclaimer", "disclaimer", TRUE)

\* A variant that adds the disclaimer on the suggestion word alone.
ReplyOfWordOnly(t) ==
    LET support == provide_support(t.message)
        parts1 == IF t.sentiment \in {"negative", "anxious", "frustrated"}
                     /\ support.empathy # ""
                  THEN InsertAt1(t.reply_parts,
                                 Fragment("empathy", support.empathy, FALSE))
                  ELSE t.reply_parts
        joined == SelectSeq(parts1, LAMBDA f : f.text # "")
    IN  IF \E i \in 1..Len(joined) : joined[i].advice
        THEN Append(joined, Disclaimer)
        ELSE joined

ReplyOf(t) ==
    LET support == provide_support(t.message)
        parts1 == IF t.sentiment \in {"negative", "anxious", "frustrated"}
                     /\ support.empathy # ""
                  THEN InsertAt1(t.reply_parts,
                                 Fragment("empathy", support.empathy, FALSE))
                  ELSE t.reply_parts
        joined == SelectSeq(parts1, LAMBDA f : f.text # "")
    IN  IF \/ t.intent \in {"ask_value_status", "risk_alert"}
           \/ \E i \in 1..Len(joined) : joined[i].advice
        THEN Append(joined, Disclaimer)
        ELSE joined

\* The dict process_message returns, with what the turn did.
Response(t) ==
    [status |-> "ok", user_id |-> t.user_id, session_id |-> t.session_id,
     message |-> t.message, reply |-> ReplyOf(t), intent |-> t.intent, sentiment |-> t.sentiment,
     actions_taken |-> t.actions_taken,
     needs_clarification |-> t.needs_clarification,
     handlers |-> t.handlers, analysis |-> t.analysis, result |-> t.result,
     before |-> t.before]

\* An exception leaves process_message: the caller gets an error.
Raised(t, step) ==
    [status |-> "error", user_id |-> t.user_id, session_id |-> t.session_id,
     step |-> step, intent |-> t.intent, sentiment |-> t.sentiment,
     before |-> t.before]

NoResult ==
    [success |-> FALSE, message |-> "", reading_id |-> NoNum, value |-> NoNum,
     unit |-> None, context |-> None, missing_info |-> <<>>]
NoAnalysis == [risk_level |-> None]

\* Steps 1 to 3: classify, detect the sentiment, extract the slots.
StartTurn(p, user_id, session_id, message) ==
    /\ pc[p] = "idle"
    /\ ops < MaxOps
    /\ turn' = [turn EXCEPT ![p] =
          [user_id |-> user_id, session_id |-> session_id, message |-> message,
           intent |-> _classify_intent(message),
           sentiment |-> _detect_sentiment(message),
           slots |-> _extract_slots(message),
           found |-> 0, reply_parts |-> <<>>, actions_taken |-> <<>>,
           needs_clarification |-> <<>>, handlers |-> <<>>,
           result |-> NoResult, analysis |-> NoAnalysis,
           before |-> [convStates |-> convStates, readings |-> readings,
                       events |-> events, weeklyReports |-> weeklyReports,
                       op |-> ops + 1]]]
    /\ pc' = [pc EXCEPT ![p] = "state_lookup"]
    /\ ops' = ops + 1
    /\ UNCHANGED <<auth, users, tables, now, out, call>>

\* _update_conversation_state, the query.
StateLookup(p) ==
    /\ pc[p] = "state_lookup"
    /\ turn' = [turn EXCEPT ![p].found =
                   FirstConvState(convStates, turn[p].user_id, turn[p].session_id)]
    /\ pc' = [pc EXCEPT ![p] = "state_commit"]
    /\ UNCHANGED <<auth, users, tables, now, out, ops, call>>

ConvStateRow(t, at) ==
    [user_id |-> t.user_id, session_id |-> t.session_id,
     current_topic |-> t.intent, intent |-> t.intent,
     sentiment |-> t.sentiment, slots |-> DumpSlots(t.slots), updated_at |-> at]

\* _update_conversation_state, the insert or update and its commit.
StateCommit(p) ==
    /\ pc[p] = "state_commit"
    /\ convStates' =
          IF turn[p].found = 0
          THEN Append(convStates, ConvStateRow(turn[p], now))
          ELSE [convStates EXCEPT ![turn[p].found] = ConvStateRow(turn[p], now)]
    /\ pc' = [pc EXCEPT ![p] = "dispatch"]
    /\ UNCHANGED <<auth, users, readings, events, meals, exercises, medications,
                   weeklyReports, now, turn, out, ops, call>>

\* A commit fails: the session rolls back and the exception propagates out
\* of process_message.  Every commit of a turn can fail this way.
CommitPoints == {"state_commit", "dispatch", "analyze"}
PersistingIntents == {"record_glucose", "record_meal", "record_exercise",
                      "record_medication", "ask_value_status", "weekly_report"}

HoursPerWeek == 168

\* generate_weekly_report: the window is the calendar week of now, Monday
\* 00:00 to the next Monday 00:00.
WeekStart(t) == t - (t % HoursPerWeek)

WeekReadings(rds, user_id, t) ==
    SelectSeq(rds, LAMBDA r :
        /\ r.user_id = user_id
        /\ r.timestamp >= WeekStart(t)
        /\ r.timestamp < WeekStart(t) + HoursPerWeek)

\* The handler of the turn commits: log_glucose returns before it opens a
\* session when the text holds no number, generate_weekly_report before it
\* adds a row when the week has no reading.
CommitsAtDispatch(t) ==
    /\ t.intent \in PersistingIntents
    /\ t.intent = "record_glucose" => extract_glucose_value(t.message) # NoNum
    /\ t.intent = "weekly_report" => Len(WeekReadings(readings, t.user_id, now)) > 0

CommitFails(p) ==
    /\ pc[p] \in CommitPoints
    /\ pc[p] = "dispatch" => CommitsAtDispatch(turn[p])
    /\ ops < MaxOps
    /\ ops' = ops + 1
    /\ out' = [out EXCEPT ![p] = Raised(turn[p], pc[p])]
    /\ turn' = [turn EXCEPT ![p] = IdleTurn]
    /\ pc' = [pc EXCEPT ![p] = "idle"]
    /\ UNCHANGED <<auth, users, tables, now, call>>

\* The turn returns.
Finish(p, t) ==
    /\ out' = [out EXCEPT ![p] = Response(t)]
    /\ turn' = [turn EXCEPT ![p] = IdleTurn]
    /\ pc' = [pc EXCEPT ![p] = "idle"]

\* A variant that lets a branch run whatever the intent.
DispatchingAny(p, intent) == pc[p] = "dispatch"

Dispatching(p, intent) == pc[p] = "dispatch" /\ turn[p].intent = intent

\* intent record_glucose: _handle_record_glucose and log_glucose.
HandleRecordGlucose(p) ==
    /\ Dispatching(p, "record_glucose")
    /\ LET t == turn[p]
           args == HandleRecordGlucoseArgs(t.message, t.slots)
           plan == LogGlucosePlan(t.message, now, args.unit, args.context,
                                  args.meal_type, args.hours_after_meal)
           result == LogGlucoseResult(plan, Len(readings) + 1)
           t1 == [t EXCEPT !.handlers = Append(@, "record_glucose"),
                           !.result = result,
                           !.reply_parts = Append(@, Fragment("log_glucose", result.message, FALSE)),
                           !.actions_taken = Append(@, "record_glucose"),
                           !.needs_clarification = @ \o result.missing_info]
       IN  /\ readings' = IF plan.found
                          THEN Append(readings, NewReading(t.user_id, plan, now))
                          ELSE readings
           /\ IF Truthy(result.reading_id)
              THEN /\ turn' = [turn EXCEPT ![p] = t1]
                   /\ pc' = [pc EXCEPT ![p] = "analyze"]
                   /\ UNCHANGED out
              ELSE Finish(p, t1)
    /\ UNCHANGED <<auth, users, events, convStates, meals, exercises, medications,
                   weeklyReports, now, ops, call>>

\* A variant that analyses against the readings from before the turn.
AnalyzeNewReadingStale(p) ==
    /\ pc[p] = "analyze"
    /\ LET t == turn[p]
           r == t.result
           a == AnalysisOf(t.user_id, r.value, r.context, t.before.readings, now)
           t1 == [t EXCEPT !.analysis = a,
                           !.reply_parts = Append(@, _format_analysis(a)),
                           !.actions_taken = Append(@, "analyze_glucose")]
       IN  /\ IF AnalysisPersists(t.user_id, r.reading_id)
              THEN /\ events' = Append(events, NewAnalysisEvent(t.user_id, r.reading_id, a, now))
                   /\ readings' = ReadingsAfterAnalysis(readings, r.reading_id, a)
              ELSE UNCHANGED <<events, readings>>
           /\ Finish(p, t1)
    /\ UNCHANGED <<auth, users, convStates, meals, exercises, medications,
                   weeklyReports, now, ops, call>>

\* The automatic analysis of the reading just recorded: value, context and
\* reading_id are read from the dict log_glucose returned.
AnalyzeNewReading(p) ==
    /\ pc[p] = "analyze"
    /\ LET t == turn[p]
           r == t.result
           a == AnalysisOf(t.user_id, r.value, r.context, readings, now)
           t1 == [t EXCEPT !.analysis = a,
                           !.reply_parts = Append(@, _format_analysis(a)),
                           !.actions_taken = Append(@, "analyze_glucose")]
       IN  /\ IF AnalysisPersists(t.user_id, r.reading_id)
              THEN /\ events' = Append(events, NewAnalysisEvent(t.user_id, r.reading_id, a, now))
                   /\ readings' = ReadingsAfterAnalysis(readings, r.reading_id, a)
              ELSE UNCHANGED <<events, readings>>
           /\ Finish(p, t1)
    /\ UNCHANGED <<auth, users, convStates, meals, exercises, medications,
                   weeklyReports, now, ops, call>>


\* intent record_meal: log_meal adds a meal row; portion_size is never passed,
\* so the portion is always reported missing.  The message quotes the text.
HandleRecordMeal(p) ==
    /\ Dispatching(p, "record_meal")
    /\ LET t == turn[p]
           meal_type == IF detect_meal_type_from_text(t.message) # None
                        THEN detect_meal_type_from_text(t.message)
                        ELSE infer_meal_type(HourOf(now))
       IN  /\ meals' = Append(meals, [user_id |-> t.user_id, meal_type |-> meal_type,
                                      timestamp |-> now])
           /\ Finish(p, [t EXCEPT
                  !.handlers = Append(@, "record_meal"),
                  !.reply_parts = Append(@, Fragment("log_meal", "recorded",
                                                     Contains(t.message, W_jianyi))),
                  !.actions_taken = Append(@, "record_meal"),
                  !.needs_clarification = @ \o <<"portion_size">>])
    /\ UNCHANGED <<auth, users, readings, events, convStates, exercises, medications,
                   weeklyReports, now, ops, call>>

\* intent record_exercise: log_exercise adds an exercise row.  The message
\* names the exercise type, which is the whole text when no type is recognised.
ExerciseType(text) ==
    LET t == Lower(text)
    IN  IF Contains(t, <<"pao", "bu_step">>) \/ Contains(t, <<"r", "u", "n">>)
        THEN "run"
        ELSE IF Contains(t, <<"zou", "lu_road">>) \/ Contains(t, <<"w", "a", "l", "k">>)
        THEN "walk"
        ELSE IF Contains(t, <<"you_swim", "yong_swim">>) \/ Contains(t, <<"s", "w", "i", "m">>)
        THEN "swim"
        ELSE "text"

HandleRecordExercise(p) ==
    /\ Dispatching(p, "record_exercise")
    /\ LET t == turn[p]
           type == ExerciseType(t.message)
       IN  /\ exercises' = Append(exercises, [user_id |-> t.user_id,
                                              exercise_type |-> type,
                                              timestamp |-> now])
           /\ Finish(p, [t EXCEPT
                  !.handlers = Append(@, "record_exercise"),
                  !.reply_parts = Append(@, Fragment("log_exercise", "recorded",
                                       type = "text" /\ Contains(t.message, W_jianyi))),
                  !.actions_taken = Append(@, "record_exercise")])
    /\ UNCHANGED <<auth, users, readings, events, convStates, meals, medications,
                   weeklyReports, now, ops, call>>

\* intent record_medication: log_medication adds a medication row named by the text.
HandleRecordMedication(p) ==
    /\ Dispatching(p, "record_medication")
    /\ LET t == turn[p]
       IN  /\ medications' = Append(medications, [user_id |-> t.user_id,
                                                  timestamp |-> now])
           /\ Finish(p, [t EXCEPT
                  !.handlers = Append(@, "record_medication"),
                  !.reply_parts = Append(@, Fragment("log_medication", "recorded",
                                                     Contains(t.message, W_jianyi))),
                  !.actions_taken = Append(@, "record_medication")])
    /\ UNCHANGED <<auth, users, readings, events, convStates, meals, exercises,
                   weeklyReports, now, ops, call>>

\* order_by(timestamp.desc()).first(): a reading of the user with the greatest
\* timestamp; the database picks among equal timestamps.
LatestReadings(rds, user_id) ==
    {i \in 1..Len(rds) :
        /\ rds[i].user_id = user_id
        /\ \A j \in 1..Len(rds) :
              rds[j].user_id = user_id => rds[j].timestamp <= rds[i].timestamp}

\* intent ask_value_status: _handle_ask_value_status analyses the latest
\* reading under its own id and context.
HandleAskValueStatus(p) ==
    /\ Dispatching(p, "ask_value_status")
    /\ LET t == turn[p]
           t0 == [t EXCEPT !.handlers = Append(@, "ask_value_status"),
                           !.actions_taken = Append(@, "ask_value_status")]
       IN  IF LatestReadings(readings, t.user_id) = {}
           THEN /\ Finish(p, [t0 EXCEPT !.reply_parts =
                        Append(@, Fragment("value_status", "no_reading", FALSE))])
                /\ UNCHANGED <<events, readings>>
           ELSE \E id \in LatestReadings(readings, t.user_id) :
                  LET r == readings[id]
                      a == AnalysisOf(t.user_id, r.value, r.context, readings, now)
                  IN  /\ IF AnalysisPersists(t.user_id, id)
                         THEN /\ events' = Append(events,
                                     NewAnalysisEvent(t.user_id, id, a, now))
                              /\ readings' = ReadingsAfterAnalysis(readings, id, a)
                         ELSE UNCHANGED <<events, readings>>
                      /\ Finish(p, [t0 EXCEPT
                             !.analysis = a,
                             !.reply_parts = Append(@, Fragment("value_status",
                                  a.conclusion, _format_analysis(a).advice))])
    /\ UNCHANGED <<auth, users, convStates, meals, exercises, medications,
                   weeklyReports, now, ops, call>>

\* EducationAgent.answer_question: the first knowledge-base key found in the
\* lowered question, in the order of the dict; "" when none is.
EducationTopic(question) ==
    LET q == Lower(question)
    IN  IF Contains(q, <<"g", "i">>) THEN "gi"
        ELSE IF Contains(q, <<"g", "l">>) THEN "gl"
        ELSE IF Contains(q, <<"kong_empty", "fu", "xue", "tang">>) THEN "fasting_glucose"
        ELSE IF Contains(q, <<"can", "hou", "xue", "tang">>) THEN "post_meal_glucose"
        ELSE IF Contains(q, <<"h", "b", "a", "1", "c">>) THEN "hba1c"
        ELSE IF Contains(q, <<"jian_watch", "ce", "pin", "lv_rate">>) THEN "monitoring"
        ELSE ""

\* The answer: the generic one and the monitoring-frequency entry contain the
\* suggestion word.  The personalised part is always empty and is not appended.
HandleAskEducation(p) ==
    /\ Dispatching(p, "ask_education")
    /\ LET t == turn[p]
           topic == EducationTopic(t.message)
       IN  Finish(p, [t EXCEPT
              !.handlers = Append(@, "ask_education"),
              !.reply_parts = Append(@, Fragment("education",
                     IF topic = "" THEN "generic" ELSE topic,
                     topic \in {"", "monitoring"})),
              !.actions_taken = Append(@, "ask_education")])
    /\ UNCHANGED <<auth, users, tables, now, ops, call>>

\* intent emotional_support: empathy, encouragement and, when there are any,
\* the next steps under a suggestion header.
HandleEmotionalSupport(p) ==
    /\ Dispatching(p, "emotional_support")
    /\ LET t == turn[p]
           support == provide_support(t.message)
           parts == <<Fragment("empathy", support.empathy, FALSE),
                      Fragment("encouragement", support.encouragement, FALSE)>>
                    \o (IF support.next_steps > 0
                        THEN <<Fragment("next_steps", "next_steps", TRUE)>>
                        ELSE <<>>)
       IN  Finish(p, [t EXCEPT
              !.handlers = Append(@, "emotional_support"),
              !.reply_parts = @ \o parts,
              !.actions_taken = Append(@, "emotional_support")])
    /\ UNCHANGED <<auth, users, tables, now, ops, call>>

\* `target or default` on a target column.
TargetOr(target, default) == IF Truthy(target) THEN target ELSE default

\* The body of the loop of calculate_target_compliance: whether one reading
\* counts as compliant.
CompliantReading(reading, user) ==
    IF reading.context = "fasting"
    THEN /\ TargetOr(user.fasting_target_min, Num(44)) <= reading.value
         /\ reading.value <= TargetOr(user.fasting_target_max, Num(72))
    ELSE IF reading.context = "post_meal"
    THEN reading.value <= TargetOr(user.post_meal_target_max, Num(100))
    ELSE Num(39) <= reading.value /\ reading.value <= Num(111)

\* The percentage of compliant readings, 0.0 for no reading.
calculate_target_compliance(rows, user) ==
    IF Len(rows) = 0 THEN 0
    ELSE (Len(SelectSeq(rows, LAMBDA r : CompliantReading(r, user))) * Num(1000))
            \div Len(rows)

\* The keys of the dict meal_type_values of identify_patterns: the meal
\* types of the readings, in the order they first occur.
RECURSIVE MealTypesOf(_, _)
MealTypesOf(rows, seen) ==
    IF Len(rows) = 0 THEN seen
    ELSE LET m == Head(rows).meal_type
         IN  MealTypesOf(Tail(rows),
                 IF m = None \/ \E i \in 1..Len(seen) : seen[i] = m
                 THEN seen ELSE Append(seen, m))

\* The name a meal type has in a pattern: the type itself when it is none
\* of the three meals.
MealName(meal_type) ==
    CASE meal_type = "breakfast" -> <<"zao", "can">>     \* 早餐
      [] meal_type = "lunch" -> <<"wu", "can">>           \* 午餐
      [] meal_type = "dinner" -> <<"wan", "can">>         \* 晚餐
      [] OTHER -> <<meal_type>>

W_after_average == <<"hou", "xue", "tang", "ping", "jun", "zhi">>   \* 后血糖平均值
W_elevated == <<"pian", "gao">>   \* 偏高
W_low == <<"pian", "di">>         \* 偏低
P_rising == <<"ben", "zhou", "hou", "qi", "xue", "tang", "jiao", "qian", "qi",
              "you", "suo", "shang", "sheng">>   \* 本周后期血糖较前期有所上升
P_falling == <<"ben", "zhou", "hou", "qi", "xue", "tang", "jiao", "qian", "qi",
               "you", "suo", "xia", "jiang">>    \* 本周后期血糖较前期有所下降
P_exercise == <<"ben", "zhou", "jin", "xing", "le", "ci", "yun", "dong">>  \* 本周进行了{n}次运动，继续保持

\* A pattern: its text and the number formatted into it.
Pattern(text, number) == [text |-> text, number |-> number]

\* The pattern of one meal type, if its average is above 8.0 or below 5.0.
MealPattern(rows, meal_type) ==
    LET values == SelectSeq(rows, LAMBDA r : r.meal_type = meal_type)
        total == SumValues(values)
        n == Len(values)
    IN  IF total > Num(80) * n
        THEN <<Pattern(MealName(meal_type) \o W_after_average \o W_elevated,
                       total \div n)>>
        ELSE IF total < Num(50) * n
        THEN <<Pattern(MealName(meal_type) \o W_after_average \o W_low,
                       total \div n)>>
        ELSE <<>>

RECURSIVE MealPatterns(_, _)
MealPatterns(rows, meal_types) ==
    IF Len(meal_types) = 0 THEN <<>>
    ELSE MealPattern(rows, Head(meal_types)) \o MealPatterns(rows, Tail(meal_types))

\* readings[:3] and readings[-3:].
FirstThree(rows) == SubSeq(rows, 1, IF Len(rows) < 3 THEN Len(rows) ELSE 3)
LastThree(rows) == SubSeq(rows, IF Len(rows) < 3 THEN 1 ELSE Len(rows) - 2, Len(rows))

\* A variant that compares the last three readings with the first half of
\* the readings.
TrendPatternOfHalf(rows) ==
    IF Len(rows) >= 3
    THEN LET recent == SumValues(LastThree(rows)) * ((Len(rows) + 1) \div 2)
             earlier == SumValues(SubSeq(rows, 1, (Len(rows) + 1) \div 2)) * 3
         IN  IF recent * 10 > earlier * 11 THEN <<Pattern(P_rising, NoNum)>>
             ELSE IF recent * 10 < earlier * 9 THEN <<Pattern(P_falling, NoNum)>>
             ELSE <<>>
    ELSE <<>>

\* The trend pattern: with three readings or more, the last three against
\* the first three.  Both averages divide by 3, and > earlier * 1.1 is
\* compared as recent * 10 > earlier * 11.
TrendPattern(rows) ==
    IF Len(rows) >= 3
    THEN LET recent == SumValues(LastThree(rows))
             earlier == SumValues(FirstThree(rows))
         IN  IF recent * 10 > earlier * 11 THEN <<Pattern(P_rising, NoNum)>>
             ELSE IF recent * 10 < earlier * 9 THEN <<Pattern(P_falling, NoNum)>>
             ELSE <<>>
    ELSE <<>>

\* identify_patterns.  The meals are not read.
identify_patterns(rows, meal_rows, exercise_rows) ==
    IF Len(rows) = 0 THEN <<>>
    ELSE MealPatterns(rows, MealTypesOf(rows, <<>>))
         \o TrendPattern(rows)
         \o (IF Len(exercise_rows) # 0
             THEN <<Pattern(P_exercise, Len(exercise_rows))>> ELSE <<>>)

\* The item of one pattern in generate_action_items.
PatternItem(pattern) ==
    IF Contains(pattern.text, W_elevated)
    THEN IF Contains(pattern.text, <<"zao", "can">>) THEN <<"breakfast_low_gi">>
         ELSE IF Contains(pattern.text, <<"wu", "can">>) THEN <<"lunch_portion">>
         ELSE IF Contains(pattern.text, <<"wan", "can">>) THEN <<"dinner_less_carbs">>
         ELSE <<>>
    ELSE <<>>

RECURSIVE PatternItems(_)
PatternItems(patterns) ==
    IF Len(patterns) = 0 THEN <<>>
    ELSE PatternItem(Head(patterns)) \o PatternItems(Tail(patterns))

\* The items of generate_action_items before the cap and the default.
TriggeredItems(rows, user, patterns) ==
    PatternItems(patterns)
    \o (IF calculate_target_compliance(rows, user) < Num(700)
        THEN <<"monitor_and_adjust">> ELSE <<>>)
    \o (IF Len(rows) < 7 THEN <<"measure_more_often">> ELSE <<>>)

\* A variant without the cap.
generate_action_items_uncapped(rows, user, patterns) ==
    IF Len(rows) = 0 THEN <<"start_recording">>
    ELSE LET items == TriggeredItems(rows, user, patterns)
         IN  IF Len(items) = 0 THEN <<"keep_habits", "monitor_regularly">>
             ELSE items

\* generate_action_items: items[:3].
generate_action_items(rows, user, patterns) ==
    IF Len(rows) = 0 THEN <<"start_recording">>
    ELSE LET items == TriggeredItems(rows, user, patterns)
             all == IF Len(items) = 0 THEN <<"keep_habits", "monitor_regularly">>
                    ELSE items
         IN  SubSeq(all, 1, IF Len(all) < 3 THEN Len(all) ELSE 3)

RECURSIVE SumSquares(_)
SumSquares(rows) ==
    IF Len(rows) = 0 THEN 0
    ELSE Head(rows).value * Head(rows).value + SumSquares(Tail(rows))

\* std_dev < 1.5, for the population standard deviation of the values:
\* sum((v - mean)^2) / n < 2.25, which is n * sum(v^2) - sum(v)^2 <
\* 2.25 * n^2, in units of 1/180.
StdDevBelow15(rows) ==
    LET n == Len(rows)
        total == SumValues(rows)
    IN  n * SumSquares(rows) - total * total < 72900 * n * n

\* A variant that looks at the deviation of any list.
identify_positive_progress_any_length(rows, user) ==
    IF Len(rows) = 0 THEN <<>>
    ELSE (IF calculate_target_compliance(rows, user) >= Num(800)
          THEN <<"compliance">> ELSE <<>>)
         \o (IF Len(rows) >= 14 THEN <<"frequency">> ELSE <<>>)
         \o (IF StdDevBelow15(rows) THEN <<"stability">> ELSE <<>>)

\* identify_positive_progress.
identify_positive_progress(rows, user) ==
    IF Len(rows) = 0 THEN <<>>
    ELSE (IF calculate_target_compliance(rows, user) >= Num(800)
          THEN <<"compliance">> ELSE <<>>)
         \o (IF Len(rows) >= 14 THEN <<"frequency">> ELSE <<>>)
         \o (IF Len(rows) >= 3 /\ StdDevBelow15(rows)
             THEN <<"stability">> ELSE <<>>)

\* The average of the readings of one context, None when there is none.
ContextAverage(rows, context) ==
    LET sel == SelectSeq(rows, LAMBDA r : r.context = context)
    IN  IF Len(sel) = 0 THEN NoNum ELSE SumValues(sel) \div Len(sel)

\* A variant that reports on an empty week like on any other.
WeeklyReportResultAlways(rows, user, report_id) ==
    [success |-> TRUE, content |-> "report", report_id |-> report_id,
     total_measurements |-> Len(rows),
     average_glucose |-> IF Len(rows) = 0 THEN 0 ELSE SumValues(rows) \div Len(rows),
     fasting_average |-> ContextAverage(rows, "fasting"),
     post_meal_average |-> ContextAverage(rows, "post_meal"),
     target_compliance_rate |-> calculate_target_compliance(rows, user)]

\* What generate_weekly_report returns for the readings of the week: the
\* no-data dict for an empty week, else the figures of the report.
WeeklyReportResult(rows, user, report_id) ==
    IF Len(rows) = 0
    THEN [success |-> FALSE, content |-> "no_data", report_id |-> NoNum,
          total_measurements |-> 0, average_glucose |-> NoNum,
          fasting_average |-> NoNum, post_meal_average |-> NoNum,
          target_compliance_rate |-> NoNum]
    ELSE [success |-> TRUE, content |-> "report", report_id |-> report_id,
          total_measurements |-> Len(rows),
          average_glucose |-> SumValues(rows) \div Len(rows),
          fasting_average |-> ContextAverage(rows, "fasting"),
          post_meal_average |-> ContextAverage(rows, "post_meal"),
          target_compliance_rate |-> calculate_target_compliance(rows, user)]

\* The weekly_reports row generate_weekly_report adds.
NewWeeklyReport(user_id, r, t) ==
    [user_id |-> user_id, week_start |-> WeekStart(t),
     week_end |-> WeekStart(t) + HoursPerWeek,
     total_measurements |-> r.total_measurements,
     average_glucose |-> r.average_glucose,
     fasting_average |-> r.fasting_average,
     post_meal_average |-> r.post_meal_average,
     target_compliance_rate |-> r.target_compliance_rate]

\* A variant that keeps one report per user and week, replacing the one
\* there is.
WeeklyReportsReplaced(rows, user_id, r, t) ==
    LET same == {i \in 1..Len(rows) :
                    rows[i].user_id = user_id /\ rows[i].week_start = WeekStart(t)}
    IN  IF ~r.success THEN rows
        ELSE IF same = {} THEN Append(rows, NewWeeklyReport(user_id, r, t))
        ELSE [i \in 1..Len(rows) |->
                 IF i \in same THEN NewWeeklyReport(user_id, r, t) ELSE rows[i]]

\* The weekly_reports table after a call: one more row when there is a
\* report, whatever rows the week already has.
WeeklyReportsAfter(rows, user_id, r, t) ==
    IF r.success THEN Append(rows, NewWeeklyReport(user_id, r, t)) ELSE rows

\* intent weekly_report: generate_weekly_report for the user of the turn.  No
\* row and the no-data content for an empty week, else one more
\* weekly_reports row; the content then has an action-item section.
HandleWeeklyReport(p) ==
    /\ Dispatching(p, "weekly_report")
    /\ LET t == turn[p]
           r == WeeklyReportResult(WeekReadings(readings, t.user_id, now),
                                   users[t.user_id], Len(weeklyReports) + 1)
           t0 == [t EXCEPT !.handlers = Append(@, "weekly_report"),
                           !.actions_taken = Append(@, "weekly_report"),
                           !.result = r,
                           !.reply_parts =
                               Append(@, Fragment("weekly_report", r.content, r.success))]
       IN  /\ weeklyReports' = WeeklyReportsAfter(weeklyReports, t.user_id, r, now)
           /\ Finish(p, t0)
    /\ UNCHANGED <<auth, users, readings, events, convStates, meals, exercises,
                   medications, now, ops, call>>

\* intent risk_alert: a fixed sentence, which contains the suggestion word.
HandleRiskAlert(p) ==
    /\ Dispatching(p, "risk_alert")
    /\ Finish(p, [turn[p] EXCEPT
          !.handlers = Append(@, "risk_alert"),
          !.reply_parts = Append(@, Fragment("risk_alert", "see_analysis", TRUE)),
          !.actions_taken = Append(@, "risk_alert")])
    /\ UNCHANGED <<auth, users, tables, now, ops, call>>

\* Any other intent: two fixed sentences, no action.
HandleGeneral(p) ==
    /\ pc[p] = "dispatch"
    /\ turn[p].intent \notin (Intents \ {"general"})
    /\ LET t == turn[p]
       IN  Finish(p, [t EXCEPT
              !.handlers = Append(@, "general"),
              !.reply_parts = @ \o
                  <<Fragment("general", "understood", FALSE),
                    Fragment("general",
                             IF Contains(t.message, W_xuetang)
                             THEN "hint_glucose" ELSE "hint_all", FALSE)>>])
    /\ UNCHANGED <<auth, users, tables, now, ops, call>>


-----------------------------------------------------------------------------
(* Profile updates, direct calls, the clock                                *)

\* The bodies of PUT /users/profile requests: the keys a body holds and their
\* values, a missing key leaving the column as it is.  No value is rejected.
ProfileUpdates == {
    [fasting_target_min |-> 0, fasting_target_max |-> Num(70)],
    [fasting_target_min |-> Num(50)],
    [fasting_target_max |-> NoNum],
    [post_meal_target_max |-> 0],
    [post_meal_target_max |-> Num(90)] }

\* update_user_profile: every key of the body is copied to its column.
UpdateUserProfile(user_id, profile) ==
    /\ ops < MaxOps
    /\ \A p \in Procs : pc[p] = "idle"
    /\ users' = [users EXCEPT ![user_id] =
                    [f \in DOMAIN @ |-> IF f \in DOMAIN profile THEN profile[f] ELSE @[f]]]
    /\ ops' = ops + 1
    /\ UNCHANGED <<auth, tables, now, pc, turn, out, call>>

\* The arguments of direct log_glucose calls: the text alone, as tools.py
\* passes it, and texts with overrides.
NoOverrides ==
    [unit |-> None, context |-> None, meal_type |-> None, hours_after_meal |-> NoNum]
LogCalls == {
    [text |-> M_how_is_it, args |-> NoOverrides],
    [text |-> M_how_is_it, args |-> [NoOverrides EXCEPT !.context = "fasting"]],
    [text |-> M_measured_5_5, args |-> NoOverrides],
    [text |-> M_measured_5_5, args |-> [NoOverrides EXCEPT !.unit = "mg/dL"]],
    [text |-> M_measured_5_5, args |-> [NoOverrides EXCEPT !.hours_after_meal = Num(20)]],
    [text |-> M_108_mg, args |-> NoOverrides],
    [text |-> M_108_mg, args |-> [NoOverrides EXCEPT !.unit = "mmol/L"]],
    [text |-> M_post_7_0, args |-> NoOverrides] }

\* log_glucose called on its own: the row it adds, the dict it returns.
DirectLogGlucose(user_id, c) ==
    /\ ops < MaxOps
    /\ \A p \in Procs : pc[p] = "idle"
    /\ LET plan == LogGlucosePlan(c.text, now, c.args.unit, c.args.context,
                                  c.args.meal_type, c.args.hours_after_meal)
       IN  /\ readings' = IF plan.found
                          THEN Append(readings, NewReading(user_id, plan, now))
                          ELSE readings
           /\ call' = [kind |-> "log_glucose", user_id |-> user_id,
                       text |-> c.text, args |-> c.args, at |-> now,
                       op |-> ops + 1,
                       before |-> [readings |-> readings, events |-> events],
                       result |-> LogGlucoseResult(plan, Len(readings) + 1)]
    /\ ops' = ops + 1
    /\ UNCHANGED <<auth, users, events, convStates, meals, exercises, medications,
                   weeklyReports, now, pc, turn, out>>

\* The arguments of direct analyze_glucose calls.
DirectValues == {Num(35), Num(42), Num(60), Num(95), Num(120)}
DirectContexts == {None, "fasting", "post_meal", "random"}
UnknownUserIds == {3}

\* analyze_glucose called on its own (tools.py does so without a reading id),
\* for any user id and any reading id.
DirectAnalyze(user_id, value, context, reading_id) ==
    /\ ops < MaxOps
    /\ \A p \in Procs : pc[p] = "idle"
    /\ LET a == AnalysisOf(user_id, value, context, readings, now)
       IN  /\ IF AnalysisPersists(user_id, reading_id)
              THEN /\ events' = Append(events,
                          NewAnalysisEvent(user_id, reading_id, a, now))
                   /\ readings' = ReadingsAfterAnalysis(readings, reading_id, a)
              ELSE UNCHANGED <<events, readings>>
           /\ call' = [kind |-> "analyze_glucose", user_id |-> user_id,
                       user |-> IF user_id \in DOMAIN users
                                THEN users[user_id] ELSE NoTargets,
                       value |-> value, context |-> context,
                       reading_id |-> reading_id, op |-> ops + 1,
                       before |-> [readings |-> readings, events |-> events],
                       result |-> a]
    /\ ops' = ops + 1
    /\ UNCHANGED <<auth, users, convStates, meals, exercises, medications,
                   weeklyReports, now, pc, turn, out>>

\* The arguments of calculate_target_compliance calls: lists of up to two
\* readings, below, inside and above the default ranges, of every context.
ComplianceValues == {Num(20), Num(46), Num(70), Num(105)}
ComplianceContexts == {"fasting", "post_meal", "random"}
ComplianceReadings == [value : ComplianceValues, context : ComplianceContexts]
ComplianceLists ==
    {<<>>} \cup {<<a>> : a \in ComplianceReadings}
           \cup {<<a, b>> : a \in ComplianceReadings, b \in ComplianceReadings}

\* calculate_target_compliance applied to a list of readings and the row of
\* a user, with what its loop found for each reading.
CalculateCompliance(user_id, rows) ==
    /\ ops < MaxOps
    /\ call' = [kind |-> "calculate_target_compliance", user |-> users[user_id],
                readings |-> rows, op |-> ops + 1,
                compliant |-> [i \in 1..Len(rows) |->
                                  CompliantReading(rows[i], users[user_id])],
                result |-> calculate_target_compliance(rows, users[user_id])]
    /\ ops' = ops + 1
    /\ UNCHANGED <<auth, users, tables, now, pc, turn, out>>

\* The texts the classifiers are applied to: a phrase for every tier and
\* rule, alone and followed by a second one.
ContextPhrases == {
    <<"mei", "chi", "fan", "ce">>,                       \* 没吃饭测
    <<"kong_empty", "fu">>,                              \* 空腹
    <<"mei", "chi", "fan", "zhi", "qian", "ce">>,        \* 没吃饭之前测
    <<"chi", "fan", "qian", "ce">>,                      \* 吃饭前测
    <<"can", "qian">>,                                   \* 餐前
    <<"chi", "wan_done", "ce">>,                         \* 吃完测
    <<"can", "hou">>,                                    \* 餐后
    <<"sui", "bian", "ce">>,                             \* 随便测
    <<"sui", "ji_chance">>,                              \* 随机
    <<"xue", "tang">>,                                   \* 血糖
    <<"ce">> }                                           \* 测
IntentPhrases == {
    <<"xue", "tang", "5">>,                              \* 血糖5
    <<"chi", "le">>,                                     \* 吃了
    <<"pao", "bu_step">>,                                \* 跑步
    <<"chi", "yao">>,                                    \* 吃药
    <<"xue", "tang", "zen", "me", "yang">>,              \* 血糖怎么样
    <<"ben", "zhou">>,                                   \* 本周
    <<"shi_is", "shen", "me">>,                          \* 是什么
    <<"dan", "xin">>,                                    \* 担心
    <<"jin_urgent", "ji_urgent">>,                       \* 紧急
    <<"ni", "hao">>,                                     \* 你好
    <<"7">> }
TextsOf(phrases) == phrases \cup {a \o b : a \in phrases, b \in phrases}

\* detect_context_from_colloquial applied to a text.
DetectContext(text) ==
    /\ ops < MaxOps
    /\ call' = [kind |-> "detect_context_from_colloquial", text |-> text,
                op |-> ops + 1, result |-> detect_context_from_colloquial(text)]
    /\ ops' = ops + 1
    /\ UNCHANGED <<auth, users, tables, now, pc, turn, out>>

\* _classify_intent applied to a message.
ClassifyIntent(message) ==
    /\ ops < MaxOps
    /\ call' = [kind |-> "_classify_intent", text |-> message,
                op |-> ops + 1, result |-> _classify_intent(message)]
    /\ ops' = ops + 1
    /\ UNCHANGED <<auth, users, tables, now, pc, turn, out>>

\* The readings of a week handed to the parts of the weekly report: three
\* blocks of equal readings, early, in the middle and late in the week, so
\* that the list is in the order of its timestamps as the query returns it.
ReportRow(value, meal_type, context) ==
    [value |-> value, meal_type |-> meal_type, context |-> context]
ReportRows == {
    ReportRow(Num(120), "breakfast", "post_meal"),
    ReportRow(Num(120), "lunch", "post_meal"),
    ReportRow(Num(120), "dinner", "post_meal"),
    ReportRow(Num(60), None, "fasting"),
    ReportRow(Num(40), "breakfast", "fasting"),
    ReportRow(Num(90), "snack", "random") }
ReportBlockSizes == {0, 1, 2, 5}
ReportBlock(row, k, timestamp) ==
    [i \in 1..k |-> [value |-> row.value, meal_type |-> row.meal_type,
                     context |-> row.context, timestamp |-> timestamp]]
ReportBlocks(timestamp) ==
    {ReportBlock(row, k, timestamp) : row \in ReportRows, k \in ReportBlockSizes}
ReportLists ==
    {a \o b \o c : a \in ReportBlocks(10), b \in ReportBlocks(60),
                    c \in ReportBlocks(130)}
ReportExercises ==
    {<<>>, <<[exercise_type |-> "walk"], [exercise_type |-> "swim"]>>}

\* The week of a user before the parts of its report are computed.
InitReport ==
    /\ users = (1 :> NoTargets) @@ (2 :> PersonalTargets)
    /\ readings = <<>>
    /\ events = <<>>
    /\ convStates = <<>>
    /\ meals = <<>>
    /\ exercises = <<>>
    /\ medications = <<>>
    /\ weeklyReports = <<>>
    /\ now = 8
    /\ pc = [p \in Procs |-> "idle"]
    /\ turn = [p \in Procs |-> IdleTurn]
    /\ out = [p \in Procs |-> [status |-> "none"]]
    /\ ops = 0
    /\ minute = 0
    /\ verifyCodes = <<>>
    /\ mails = <<>>
    /\ \E rows \in ReportLists, ex \in ReportExercises :
           call = [kind |-> "none", readings |-> rows, exercises |-> ex]

\* identify_patterns applied to the week.
IdentifyPatterns ==
    /\ ops < MaxOps
    /\ call' = [kind |-> "identify_patterns", readings |-> call.readings,
                exercises |-> call.exercises, op |-> ops + 1,
                result |-> identify_patterns(call.readings, <<>>, call.exercises)]
    /\ ops' = ops + 1
    /\ UNCHANGED <<auth, users, tables, now, pc, turn, out>>

\* generate_action_items applied to the week and its patterns, as
\* generate_weekly_report calls it.
GenerateActionItems(user_id) ==
    /\ ops < MaxOps
    /\ LET patterns == identify_patterns(call.readings, <<>>, call.exercises)
       IN  call' = [kind |-> "generate_action_items", readings |-> call.readings,
                    exercises |-> call.exercises, op |-> ops + 1,
                    user |-> users[user_id], patterns |-> patterns,
                    result |-> generate_action_items(call.readings,
                                   users[user_id], patterns)]
    /\ ops' = ops + 1
    /\ UNCHANGED <<auth, users, tables, now, pc, turn, out>>

\* identify_positive_progress applied to the week.
IdentifyPositiveProgress(user_id) ==
    /\ ops < MaxOps
    /\ call' = [kind |-> "identify_positive_progress", readings |-> call.readings,
                exercises |-> call.exercises, op |-> ops + 1,
                user |-> users[user_id],
                result |-> identify_positive_progress(call.readings, users[user_id])]
    /\ ops' = ops + 1
    /\ UNCHANGED <<auth, users, tables, now, pc, turn, out>>

\* The addresses of send-verify-code requests, stripped and in lower case:
\* the one of a registered user and one nobody registered.
EmailOf == (1 :> "user1@example.com") @@ (2 :> "user2@example.com")
Emails == {"new@example.com", "user1@example.com"}
CodeValues == {"123456"}
\* The minutes between a request and the step before it.
Waits == {0, 2, 11}
\* The number of send-verify-code requests of a run.
MaxSends == 6

\* datetime.utcnow() in minutes.
MinuteNow(hour, min) == hour * 60 + min

\* What send_verify_code does with the table for a request at minute t:
\* the checks 2 to 4, and the rows after steps 5 and 8.
SendOutcome(rows, email, t) ==
    IF \E u \in DOMAIN users : EmailOf[u] = email THEN "registered"
    ELSE IF \E i \in 1..Len(rows) :
                rows[i].email = email /\ rows[i].create_time > t - 1
    THEN "wait_a_minute"
    ELSE IF Len(SelectSeq(rows, LAMBDA r :
                r.email = email /\ r.create_time > t - 24 * 60)) >= 5
    THEN "too_many"
    ELSE "send"
RowsWithoutOld(rows, email, t) ==
    SelectSeq(rows, LAMBDA r :
        ~(r.email = email /\ ~r.is_used /\ r.expire_time > t))
NewVerifyCode(email, code, t) ==
    [email |-> email, code |-> code, expire_time |-> t + 10, is_used |-> FALSE,
     create_time |-> t]

\* POST /auth/send-verify-code, `wait` minutes after the step before: the
\* request is refused with 400 or 429 and changes nothing, or the old rows
\* of the address are deleted and a row is stored; the row is deleted
\* again when the mail cannot be sent.
SendVerifyCode(email, code, wait, email_sent) ==
    /\ ops < MaxSends
    /\ \A p \in Procs : pc[p] = "idle"
    /\ LET t == MinuteNow(now, minute) + wait
           outcome == SendOutcome(verifyCodes, email, t)
           kept == RowsWithoutOld(verifyCodes, email, t)
       IN  /\ now' = t \div 60
           /\ minute' = t % 60
           /\ verifyCodes' =
                  IF outcome # "send" THEN verifyCodes
                  ELSE IF email_sent THEN Append(kept, NewVerifyCode(email, code, t))
                  ELSE kept
           /\ mails' =
                  IF outcome = "send" /\ email_sent
                  THEN Append(mails, [email |-> email, code |-> code, at |-> t])
                  ELSE mails
           /\ call' = [kind |-> "send_verify_code", email |-> email, at |-> t,
                       op |-> ops + 1,
                       result |-> IF outcome = "send" /\ ~email_sent
                                  THEN "mail_failed" ELSE outcome]
    /\ ops' = ops + 1
    /\ UNCHANGED <<users, tables, pc, turn, out>>

\* The arguments of _analyze_trend calls: tables of up to three readings of
\* two users, two contexts, inside and outside the last seven days, and
\* current values on and around 90% and 110% of their averages.
TrendRow(user_id, value, context, timestamp) ==
    [user_id |-> user_id, value |-> value, context |-> context,
     timestamp |-> timestamp]
TrendRows == {
    TrendRow(1, Num(50), "fasting", 0),
    TrendRow(1, Num(100), "fasting", 0),
    TrendRow(1, Num(100), "random", 0),
    TrendRow(1, Num(100), "fasting", 0 - 200),
    TrendRow(2, Num(100), "fasting", 0) }
TrendTables ==
    {<<>>} \cup {<<a>> : a \in TrendRows}
           \cup {<<a, b>> : a \in TrendRows, b \in TrendRows}
           \cup {<<TrendRow(1, Num(50), "fasting", 0), a, b>> :
                     a \in TrendRows, b \in TrendRows}
TrendValues == {Num(v) : v \in {44, 45, 55, 56, 67, 83, 90, 110, 111}}
TrendContexts == {None, "fasting"}

\* _analyze_trend applied to a table of readings, for user 1 at the time
\* of the call.
AnalyzeTrend(rds, value, context) ==
    /\ ops < MaxOps
    /\ call' = [kind |-> "_analyze_trend", readings |-> rds, user_id |-> 1,
                value |-> value, context |-> context, at |-> now, op |-> ops + 1,
                result |-> _analyze_trend(rds, 1, value, context, now)]
    /\ ops' = ops + 1
    /\ UNCHANGED <<auth, users, tables, now, pc, turn, out>>

\* The arguments of _assess_risk calls: values on and around every threshold,
\* target ranges below, inside, across and above the fixed thresholds, in
\* either order.
RiskValues == {Num(v) : v \in {0, 38, 39, 40, 44, 50, 72, 73, 100, 111, 166, 167, 200}}
RiskTargetMins == {Num(v) : v \in {0, 30, 44, 50, 120}}
RiskTargetMaxs == {Num(v) : v \in {35, 50, 72, 100, 180}}
RiskContexts == {None, "fasting"}

\* _assess_risk applied to arguments of its own.
AssessRisk(value, target_min, target_max, context) ==
    /\ ops < MaxOps
    /\ call' = [kind |-> "_assess_risk", value |-> value,
                target_min |-> target_min, target_max |-> target_max,
                context |-> context,
                result |-> _assess_risk(value, target_min, target_max, context)]
    /\ ops' = ops + 1
    /\ UNCHANGED <<auth, users, tables, now, pc, turn, out>>

\* Time passes between requests: six hours, or eight days.  A request takes
\* less than an hour.
ClockSteps == {6, 192}

AdvanceClock(d) ==
    /\ ops < MaxOps
    /\ \A p \in Procs : pc[p] = "idle"
    /\ now' = now + d
    /\ ops' = ops + 1
    /\ UNCHANGED <<auth, users, tables, pc, turn, out, call>>

-----------------------------------------------------------------------------
(* Specifications                                                          *)

\* The steps of a process_message call after its start.
TurnStep(p) ==
    \/ StateLookup(p)
    \/ StateCommit(p)
    \/ CommitFails(p)
    \/ HandleRecordGlucose(p)
    \/ AnalyzeNewReading(p)
    \/ HandleRecordMeal(p)
    \/ HandleRecordExercise(p)
    \/ HandleRecordMedication(p)
    \/ HandleAskValueStatus(p)
    \/ HandleAskEducation(p)
    \/ HandleEmotionalSupport(p)
    \/ HandleWeeklyReport(p)
    \/ HandleRiskAlert(p)
    \/ HandleGeneral(p)

\* Requests served one at a time by one worker.
SeqWorkers == {1}

\* Who sends what: the user without targets sends every message, the user
\* with personal targets the glucose ones.
PersonalCorpus == {M_fasting_4_0, M_how_is_it}
SpecTurns == ({1} \X Corpus) \cup ({2} \X PersonalCorpus)

\* One session of each user, every intent, failing commits, the clock.
Next ==
    \/ \E p \in SeqWorkers, um \in SpecTurns : StartTurn(p, um[1], MainSession, um[2])
    \/ \E p \in SeqWorkers : TurnStep(p)
    \/ \E d \in ClockSteps : AdvanceClock(d)

Spec == Init /\ [][Next]_vars

\* Several sessions of several users, one request at a time.
ConvCorpus == {M_12_5_worried, M_frustrated, M_what_is_gi}

NextConv ==
    \/ \E p \in SeqWorkers, u \in UserIds, sid \in SessionIds, m \in ConvCorpus :
          StartTurn(p, u, sid, m)
    \/ \E p \in SeqWorkers :
          \/ StateLookup(p)
          \/ StateCommit(p)
          \/ CommitFails(p)
          \/ HandleRecordGlucose(p)
          \/ AnalyzeNewReading(p)
          \/ HandleAskEducation(p)
          \/ HandleEmotionalSupport(p)

SpecConv == Init /\ [][NextConv]_vars

\* Two workers serving requests of one user and session at the same time:
\* the lookup and the commit of _update_conversation_state are two steps, and
\* a lookup sees what is committed.
ConcCorpus == {M_frustrated, M_what_is_gi}

NextConc ==
    \/ \E p \in Procs, m \in ConcCorpus : StartTurn(p, 1, MainSession, m)
    \/ \E p \in Procs :
          \/ StateLookup(p)
          \/ StateCommit(p)
          \/ HandleAskEducation(p)
          \/ HandleEmotionalSupport(p)

SpecConc == Init /\ [][NextConc]_vars

\* Profiles change; analyze_glucose and _assess_risk are called directly.
NextRisk ==
    \/ \E u \in UserIds, profile \in ProfileUpdates : UpdateUserProfile(u, profile)
    \/ \E u \in UserIds \cup UnknownUserIds, v \in DirectValues, c \in DirectContexts :
          DirectAnalyze(u, v, c, NoNum)
    \/ \E v \in RiskValues, lo \in RiskTargetMins, hi \in RiskTargetMaxs,
          c \in RiskContexts : AssessRisk(v, lo, hi, c)

SpecRisk == Init /\ [][NextRisk]_vars

\* Readings recorded through the conversation and through direct calls of
\* log_glucose, at several hours of the day.
LogCorpus == {M_fasting_4_0, M_superscript, M_108_mg, M_measured_5_5}
LogClockSteps == {6}
LogAnalyzeValues == {Num(120)}

NextLog ==
    \/ \E p \in SeqWorkers, m \in LogCorpus : StartTurn(p, 1, MainSession, m)
    \/ \E p \in SeqWorkers :
          \/ StateLookup(p)
          \/ StateCommit(p)
          \/ HandleRecordGlucose(p)
          \/ AnalyzeNewReading(p)
    \/ \E c \in LogCalls : DirectLogGlucose(1, c)
    \/ \E u \in {1} \cup UnknownUserIds, v \in LogAnalyzeValues,
          rid \in {NoNum} \cup (1..Len(readings)) : DirectAnalyze(u, v, None, rid)
    \/ \E d \in LogClockSteps : AdvanceClock(d)

SpecLog == Init /\ [][NextLog]_vars

\* Profiles change; calculate_target_compliance is called on lists of
\* readings.
NextCompliance ==
    \/ \E u \in UserIds, profile \in ProfileUpdates : UpdateUserProfile(u, profile)
    \/ \E u \in UserIds, rows \in ComplianceLists : CalculateCompliance(u, rows)

SpecCompliance == Init /\ [][NextCompliance]_vars

\* The classifiers of the text applied to texts.
NextText ==
    \/ \E text \in TextsOf(ContextPhrases) : DetectContext(text)
    \/ \E message \in TextsOf(IntentPhrases) : ClassifyIntent(message)

SpecText == Init /\ [][NextText]_vars

\* analyze_glucose called with and without the id of a reading, of the
\* caller's own, of another user's, or of none, after readings were logged.
AnalyzeCorpus == {M_fasting_4_0}
AnalyzeLogCalls == {[text |-> M_measured_5_5, args |-> NoOverrides]}
AnalyzeContexts == {None, "fasting"}

NextAnalyze ==
    \/ \E p \in SeqWorkers, m \in AnalyzeCorpus : StartTurn(p, 1, MainSession, m)
    \/ \E p \in SeqWorkers :
          \/ StateLookup(p)
          \/ StateCommit(p)
          \/ HandleRecordGlucose(p)
          \/ AnalyzeNewReading(p)
    \/ \E u \in UserIds, c \in AnalyzeLogCalls : DirectLogGlucose(u, c)
    \/ \E u \in UserIds \cup UnknownUserIds, v \in LogAnalyzeValues,
          c \in AnalyzeContexts, rid \in {NoNum} \cup (0..(Len(readings) + 1)) :
          DirectAnalyze(u, v, c, rid)

SpecAnalyze == Init /\ [][NextAnalyze]_vars

\* _analyze_trend applied to tables of readings.
NextTrend ==
    \E rds \in TrendTables, v \in TrendValues, c \in TrendContexts :
        AnalyzeTrend(rds, v, c)

SpecTrend == Init /\ [][NextTrend]_vars

\* The parts of the weekly report computed on a week of readings.
NextReport ==
    \/ IdentifyPatterns
    \/ \E u \in UserIds : GenerateActionItems(u)
    \/ \E u \in UserIds : IdentifyPositiveProgress(u)

SpecReport == InitReport /\ [][NextReport]_vars

\* Requests for verification codes over time.
NextVerify ==
    \E email \in Emails, code \in CodeValues, wait \in Waits,
       email_sent \in BOOLEAN :
        SendVerifyCode(email, code, wait, email_sent)

SpecVerify == Init /\ [][NextVerify]_vars

-----------------------------------------------------------------------------
(* Properties                                                              *)

\* The process_message call of worker p has returned and no request has
\* started since: the tables are as the call left them.
Returned(p) == pc[p] = "idle" /\ out[p].status = "ok"
Failed(p) == pc[p] = "idle" /\ out[p].status = "error"

\* The call of worker p, or the direct call, is the last thing that happened.
Latest(p) == Returned(p) /\ out[p].before.op = ops
LatestCall(kind) == call.kind = kind /\ call.op = ops

\* The target range as specified: a target is explicit when the column is set.
SpecifiedRange(user, context) ==
    IF context = "fasting"
    THEN IF user.fasting_target_min # NoNum /\ user.fasting_target_max # NoNum
         THEN <<user.fasting_target_min, user.fasting_target_max>>
         ELSE <<Num(44), Num(72)>>
    ELSE IF context = "post_meal"
    THEN IF user.post_meal_target_max # NoNum
         THEN <<0, user.post_meal_target_max>>
         ELSE <<0, Num(100)>>
    ELSE <<Num(39), Num(111)>>

SpecifiedTier(user, context, value) ==
    _assess_risk(value, SpecifiedRange(user, context)[1],
                 SpecifiedRange(user, context)[2], context).risk_level

RowsOf(rows, user_id, session_id) ==
    {i \in 1..Len(rows) : rows[i].user_id = user_id /\ rows[i].session_id = session_id}

EventsOf(reading_id) ==
    {e \in 1..Len(events) : events[e].glucose_reading_id = reading_id}

Positions(seq, x) == {i \in 1..Len(seq) : seq[i] = x}

\* C1: a record_glucose turn that persisted a reading returns, and stores as
\* the reading's risk_level, the tier of the reading's value against the
\* range specified for the reading's stored context.
C1_TierFollowsStoredContext ==
    \A p \in Procs :
        (Returned(p) /\ out[p].intent = "record_glucose"
                     /\ Truthy(out[p].result.reading_id)) =>
            LET r == readings[out[p].result.reading_id]
                tier == SpecifiedTier(users[out[p].user_id], r.context, r.value)
            IN  out[p].analysis.risk_level = tier /\ r.risk_level = tier

\* C2: whatever the target range and the context, _assess_risk returns
\* critical below 3.9, critical from 16.7 on, and high from 11.1 to below 16.7.
C2_FixedThresholdsFirst ==
    call.kind = "_assess_risk" =>
        /\ call.value < Num(39) =>
              /\ call.result.risk_level = "critical"
              /\ call.result.conclusion = "hypoglycemia_risk"
        /\ call.value >= Num(167) =>
              /\ call.result.risk_level = "critical"
              /\ call.result.conclusion = "very_high_risk"
        /\ (call.value >= Num(111) /\ call.value < Num(167)) =>
              call.result.risk_level = "high"

\* _assess_risk classified as critical a value inside the target range.
C2_Witness ==
    /\ call.kind = "_assess_risk"
    /\ call.value < Num(39)
    /\ call.target_min <= call.value /\ call.value <= call.target_max
    /\ call.result.risk_level = "critical"

SixTiers ==
    {<<"critical", "hypoglycemia_risk">>, <<"critical", "very_high_risk">>,
     <<"high", "high">>, <<"moderate", "below_target">>,
     <<"normal", "in_target_range">>, <<"moderate", "above_target">>}

\* C3: for a target range with min < max, _assess_risk returns one of the
\* six tiers, each only on its own side of the bounds: normal only for
\* min <= value <= max, moderate-low only below min, moderate-high only
\* above max.
C3_SixTiersPartition ==
    (call.kind = "_assess_risk" /\ call.target_min < call.target_max) =>
        /\ <<call.result.risk_level, call.result.conclusion>> \in SixTiers
        /\ call.result.risk_level = "normal" =>
              (call.target_min <= call.value /\ call.value <= call.target_max)
        /\ call.result.conclusion = "below_target" => call.value < call.target_min
        /\ call.result.conclusion = "above_target" => call.value > call.target_max

\* _assess_risk returned normal for a value on the upper bound of the range.
C3_Witness ==
    /\ call.kind = "_assess_risk"
    /\ call.target_min < call.target_max
    /\ call.value = call.target_max
    /\ call.result.risk_level = "normal"

\* C4: analyze_glucose classifies against the specified range: the user's
\* explicit targets for fasting and post_meal, the defaults without them,
\* (3.9, 11.1) for every other context.
C4_RangeResolvedFromTargets ==
    (call.kind = "analyze_glucose" /\ call.user_id \in UserIds) =>
        call.result.range = SpecifiedRange(call.user, call.context)

\* C5: when a turn of a series of sequential turns has returned, its
\* (user, session) has exactly one row, holding the intent, sentiment and
\* slots of that turn; every other (user, session) has the rows it had before
\* the turn, never more than one.
C5_OneRowPerSessionOverwritten ==
    \A p \in Procs : Returned(p) =>
        LET o == out[p]
            mine == RowsOf(convStates, o.user_id, o.session_id)
        IN  /\ Cardinality(mine) = 1
            /\ \A i \in mine :
                  /\ convStates[i].intent = _classify_intent(o.message)
                  /\ convStates[i].sentiment = _detect_sentiment(o.message)
                  /\ convStates[i].slots = DumpSlots(_extract_slots(o.message))
            /\ \A u \in UserIds, sid \in SessionIds :
                  /\ Cardinality(RowsOf(convStates, u, sid)) <= 1
                  /\ <<u, sid>> # <<o.user_id, o.session_id>> =>
                        {convStates[i] : i \in RowsOf(convStates, u, sid)}
                        = {o.before.convStates[i] :
                              i \in RowsOf(o.before.convStates, u, sid)}

\* A turn overwrote the row an earlier turn of its session had written with
\* another intent, while another session has a row of its own.
C5_Witness ==
    \E p \in Procs :
        /\ Returned(p)
        /\ \E i \in RowsOf(out[p].before.convStates, out[p].user_id, out[p].session_id) :
              out[p].before.convStates[i].intent # out[p].intent
        /\ \E i \in 1..Len(convStates) :
              convStates[i].session_id # out[p].session_id

\* C6: with concurrent turns of one (user, session), no state has more than
\* one ConversationState row for a (user, session).
C6_OneRowUnderConcurrency ==
    \A u \in UserIds, sid \in SessionIds :
        Cardinality(RowsOf(convStates, u, sid)) <= 1

\* C7: after a turn in which a persistence step failed, the conversation
\* states, the readings and the analysis events are what they were before
\* the turn.
C7_FailedTurnWritesNothing ==
    \A p \in Procs : Failed(p) =>
        /\ convStates = out[p].before.convStates
        /\ readings = out[p].before.readings
        /\ events = out[p].before.events

\* C8: no reading has more than one analysis event.
C8_OneEventPerReading ==
    \A id \in 1..Len(readings) : Cardinality(EventsOf(id)) <= 1

\* C9: a returned turn ran exactly the handler of its intent, persisted at
\* most one reading, analysed a new reading exactly when the intent is
\* record_glucose and logging returned a reading id, and lists the analysis
\* action only after the record action.
C9_OneHandlerPerTurn ==
    \A p \in Procs : Returned(p) =>
        LET o == out[p]
        IN  /\ o.handlers = <<o.intent>>
            /\ Len(readings) - Len(o.before.readings) \in {0, 1}
            /\ Positions(o.actions_taken, "analyze_glucose") # {}
                  <=> (o.intent = "record_glucose" /\ Truthy(o.result.reading_id))
            /\ \A i \in Positions(o.actions_taken, "analyze_glucose") :
                  \E j \in Positions(o.actions_taken, "record_glucose") : j < i

\* A record_glucose turn returned after recording and analysing a reading.
C9_Witness ==
    \E p \in Procs :
        /\ Returned(p)
        /\ out[p].intent = "record_glucose"
        /\ Len(readings) = Len(out[p].before.readings) + 1
        /\ out[p].actions_taken = <<"record_glucose", "analyze_glucose">>

\* C10: the reply of a turn whose sentiment is negative or anxious begins
\* with the empathy line, which occurs once in it.
C10_ReplyBeginsWithEmpathy ==
    \A p \in Procs :
        (Returned(p) /\ out[p].sentiment \in {"negative", "anxious"}) =>
            /\ out[p].reply[1].kind = "empathy"
            /\ Cardinality({i \in 1..Len(out[p].reply) :
                               out[p].reply[i].kind = "empathy"}) = 1

\* The fragments of a reply that are the disclaimer, and whether a fragment
\* before the disclaimer holds the suggestion word.
DisclaimerAt(reply) == {i \in 1..Len(reply) : reply[i].kind = "disclaimer"}
SaysAdvice(reply) ==
    \E i \in 1..Len(reply) : reply[i].kind # "disclaimer" /\ reply[i].advice

\* C11: the disclaimer is in the reply, once and last, exactly when the
\* intent is ask_value_status or risk_alert or the joined reply holds the
\* suggestion word; so a reply with a risk suggestion list, a next-steps list
\* or a weekly action-item section ends with the disclaimer.
C11_DisclaimerIffAdvice ==
    \A p \in Procs : Returned(p) =>
        LET o == out[p]
            due == o.intent \in {"ask_value_status", "risk_alert"} \/ SaysAdvice(o.reply)
        IN  /\ DisclaimerAt(o.reply) = (IF due THEN {Len(o.reply)} ELSE {})
            /\ (\/ (o.analysis.risk_level # None /\ Len(o.analysis.suggestions) > 0)
                \/ \E i \in 1..Len(o.reply) : o.reply[i].kind = "next_steps"
                \/ \E i \in 1..Len(o.reply) :
                      o.reply[i].kind = "weekly_report" /\ o.reply[i].text = "report")
               => o.reply[Len(o.reply)].kind = "disclaimer"

\* An ask_value_status turn without a reading returned: no fragment holds the
\* suggestion word, and the reply ends with the disclaimer.
C11_Witness ==
    \E p \in Procs :
        /\ Returned(p)
        /\ out[p].intent = "ask_value_status"
        /\ ~SaysAdvice(out[p].reply)
        /\ DisclaimerAt(out[p].reply) = {Len(out[p].reply)}

\* C12: a log_glucose call whose text holds no number returns success false,
\* the clarification message and missing_info naming the value, and adds no
\* reading; a record_glucose turn of process_message whose text holds no
\* number returns that clarification in its reply and in
\* needs_clarification, runs no analysis and adds no reading and no event.
C12_NoValueAsksAndWritesNothing ==
    /\ (LatestCall("log_glucose") /\ extract_glucose_value(call.text) = NoNum) =>
          /\ call.result.success = FALSE
          /\ call.result.message = "no_value"
          /\ call.result.missing_info = <<"glucose_value">>
          /\ readings = call.before.readings
          /\ events = call.before.events
    /\ \A p \in Procs :
          (/\ Latest(p)
           /\ out[p].intent = "record_glucose"
           /\ extract_glucose_value(out[p].message) = NoNum) =>
             /\ out[p].reply = <<Fragment("log_glucose", "no_value", FALSE)>>
             /\ out[p].needs_clarification = <<"glucose_value">>
             /\ out[p].analysis = NoAnalysis
             /\ out[p].actions_taken = <<"record_glucose">>
             /\ readings = out[p].before.readings
             /\ events = out[p].before.events

C12_Witness ==
    /\ LatestCall("log_glucose") /\ extract_glucose_value(call.text) = NoNum
    /\ Len(readings) > 0
    /\ \E p \in Procs : /\ Returned(p)
                        /\ out[p].intent = "record_glucose"
                        /\ extract_glucose_value(out[p].message) = NoNum

\* C13: analyze_glucose for a user id without a users row returns the risk
\* level "unknown" and no suggestion, adds no analysis event and changes no
\* reading, also when it is given the id of a reading.
C13_UnknownUserWritesNothing ==
    (LatestCall("analyze_glucose") /\ call.user_id \notin DOMAIN users) =>
        /\ call.result.risk_level = "unknown"
        /\ call.result.suggestions = <<>>
        /\ events = call.before.events
        /\ readings = call.before.readings

C13_Witness ==
    /\ LatestCall("analyze_glucose")
    /\ call.user_id \notin DOMAIN users
    /\ call.reading_id \in 1..Len(readings)
    /\ readings[call.reading_id].risk_level # "unknown"

\* The unit a log_glucose call works with, and the value it is to store for
\* the number found in the text.
InputUnit(text, unit) == IF unit # None THEN unit ELSE detect_unit(text)
ValueToStore(text, unit) ==
    IF InputUnit(text, unit) = "mg/dL"
    THEN extract_glucose_value(text) \div 18
    ELSE extract_glucose_value(text)

\* C14: every reading log_glucose has stored has the unit mmol/L; the one a
\* call stores holds the number found in the text divided by 18 when the
\* unit of the call, the override or else the one the text names, is mg/dL,
\* and the number itself otherwise.
C14_StoredInMmol ==
    /\ \A i \in 1..Len(readings) : readings[i].unit = "mmol/L"
    /\ (LatestCall("log_glucose") /\ call.result.success) =>
          /\ Len(readings) = Len(call.before.readings) + 1
          /\ readings[Len(readings)].value = ValueToStore(call.text, call.args.unit)
    /\ \A p \in Procs :
          (Latest(p) /\ out[p].intent = "record_glucose" /\ out[p].result.success) =>
             /\ Len(readings) = Len(out[p].before.readings) + 1
             /\ readings[Len(readings)].value = ValueToStore(out[p].message, None)

C14_Witness ==
    /\ LatestCall("log_glucose")
    /\ call.result.success
    /\ call.args.unit = "mg/dL"
    /\ detect_unit(call.text) = "mmol/L"
    /\ readings[Len(readings)].value # extract_glucose_value(call.text)
    /\ \E i \in 1..Len(readings) : readings[i].value = Num(60)

\* C15: a log_glucose call whose text holds a number adds exactly one reading
\* and returns success true with the id of that reading, also when it reports
\* missing information; a record_glucose turn of process_message returns the
\* entries of missing_info as its needs_clarification.
C15_MissingInfoNeverBlocksSave ==
    /\ (LatestCall("log_glucose") /\ extract_glucose_value(call.text) # NoNum) =>
          /\ call.result.success
          /\ call.result.reading_id = Len(readings)
          /\ readings = Append(call.before.readings, readings[Len(readings)])
    /\ \A p \in Procs :
          (/\ Latest(p)
           /\ out[p].intent = "record_glucose"
           /\ extract_glucose_value(out[p].message) # NoNum) =>
             /\ out[p].result.success
             /\ out[p].result.reading_id = Len(readings)
             /\ Len(readings) = Len(out[p].before.readings) + 1
             /\ \A i \in 1..Len(out[p].before.readings) :
                   readings[i].value = out[p].before.readings[i].value
             /\ out[p].needs_clarification = out[p].result.missing_info

C15_Witness ==
    /\ LatestCall("log_glucose")
    /\ call.result.success
    /\ call.result.missing_info = <<"hours_after_meal">>
    /\ \E p \in Procs : /\ Returned(p)
                        /\ out[p].result.success
                        /\ out[p].needs_clarification = <<"context">>

\* A log_glucose call has only the hour to go by: no context override, no
\* hours after the meal given, no colloquial tier and no standard keyword
\* in the text.
OnlyTheHour(text, context, hours_after_meal) ==
    /\ context = None
    /\ hours_after_meal = NoNum
    /\ detect_context_from_colloquial(text) = None
    /\ LogKeywordContext(text, NoNum) = None

HourDecides(row, missing_info) ==
    /\ row.context = (IF HourOf(row.timestamp) < 10 THEN "fasting" ELSE "random")
    /\ (\E i \in 1..Len(missing_info) : missing_info[i] = "context")
          <=> HourOf(row.timestamp) >= 10

\* C16: a log_glucose call that has only the hour to go by stores the context
\* fasting when the hour of the timestamp is before 10 and random otherwise,
\* and reports the context as missing in the random case only; the context
\* of every stored reading is set.
C16_HourDecidesContext ==
    /\ \A i \in 1..Len(readings) : readings[i].context # None
    /\ (/\ LatestCall("log_glucose")
        /\ call.result.success
        /\ OnlyTheHour(call.text, call.args.context, call.args.hours_after_meal)) =>
          HourDecides(readings[Len(readings)], call.result.missing_info)
    /\ \A p \in Procs :
          (/\ Latest(p)
           /\ out[p].intent = "record_glucose"
           /\ out[p].result.success
           /\ OnlyTheHour(out[p].message,
                  HandleRecordGlucoseArgs(out[p].message, _extract_slots(out[p].message)).context,
                  HandleRecordGlucoseArgs(out[p].message, _extract_slots(out[p].message)).hours_after_meal)) =>
             HourDecides(readings[Len(readings)], out[p].result.missing_info)

C16_Witness ==
    /\ LatestCall("log_glucose")
    /\ call.result.success
    /\ OnlyTheHour(call.text, call.args.context, call.args.hours_after_meal)
    /\ readings[Len(readings)].context = "random"
    /\ \E i \in 1..Len(readings) :
          /\ readings[i].context = "fasting"
          /\ readings[i].value = Num(55)
          /\ HourOf(readings[i].timestamp) < 10

\* C17: generate_weekly_report for a user without a reading in the week of
\* the call returns success false, the no-data content, no compliance rate
\* and total_measurements 0, and adds no row; no weekly_report turn of such
\* a user fails in its handler.
C17_EmptyWeekReportsNoData ==
    \A p \in Procs :
        /\ (/\ Latest(p)
            /\ out[p].intent = "weekly_report"
            /\ Len(WeekReadings(readings, out[p].user_id, now)) = 0) =>
              /\ out[p].result.success = FALSE
              /\ out[p].result.content = "no_data"
              /\ out[p].result.target_compliance_rate = NoNum
              /\ out[p].result.total_measurements = 0
              /\ \E i \in 1..Len(out[p].reply) :
                    out[p].reply[i] = Fragment("weekly_report", "no_data", FALSE)
              /\ weeklyReports = out[p].before.weeklyReports
        /\ (/\ Failed(p)
            /\ out[p].before.op + 1 = ops
            /\ out[p].intent = "weekly_report"
            /\ Len(WeekReadings(readings, out[p].user_id, now)) = 0) =>
              out[p].step # "dispatch"

C17_Witness ==
    \E p \in Procs :
        /\ Latest(p)
        /\ out[p].intent = "weekly_report"
        /\ Len(WeekReadings(readings, out[p].user_id, now)) = 0
        /\ \E i \in 1..Len(readings) : readings[i].user_id = out[p].user_id

ReportsOf(rows, user_id) == {i \in 1..Len(rows) : rows[i].user_id = user_id}

\* C18: every call of generate_weekly_report adds one weekly_reports row of
\* the user and leaves the rows there were, so that k calls leave k rows,
\* also when calls repeat within a week.
C18_EveryInvocationAddsRow ==
    \A p \in Procs :
        (Latest(p) /\ out[p].intent = "weekly_report") =>
            /\ Cardinality(ReportsOf(weeklyReports, out[p].user_id))
                  = Cardinality(ReportsOf(out[p].before.weeklyReports, out[p].user_id)) + 1
            /\ \A i \in 1..Len(out[p].before.weeklyReports) :
                  weeklyReports[i] = out[p].before.weeklyReports[i]

\* C18 as amended: a call of generate_weekly_report for a user with a reading
\* in the week of the call adds one weekly_reports row of the user and leaves
\* the rows there were, also when the week already has a report; a call for
\* a user without a reading in the week adds none.
C18_InvocationWithReadingsAddsRow ==
    \A p \in Procs :
        (Latest(p) /\ out[p].intent = "weekly_report") =>
            /\ Cardinality(ReportsOf(weeklyReports, out[p].user_id))
                  = Cardinality(ReportsOf(out[p].before.weeklyReports, out[p].user_id))
                    + (IF Len(WeekReadings(readings, out[p].user_id, now)) > 0 THEN 1 ELSE 0)
            /\ Len(weeklyReports) <= Len(out[p].before.weeklyReports) + 1
            /\ \A i \in 1..Len(out[p].before.weeklyReports) :
                  weeklyReports[i] = out[p].before.weeklyReports[i]

C18_Witness ==
    \E p \in Procs :
        /\ Latest(p)
        /\ out[p].intent = "weekly_report"
        /\ Len(weeklyReports) = 2
        /\ weeklyReports[1].user_id = weeklyReports[2].user_id
        /\ weeklyReports[1].week_start = weeklyReports[2].week_start

\* The range of a reading's own context: the user's target where it is set,
\* else the default, and the wide band for the other contexts.
ExplicitOr(target, default) == IF target # NoNum THEN target ELSE default

SatisfiesOwnRange(reading, user) ==
    IF reading.context = "fasting"
    THEN /\ ExplicitOr(user.fasting_target_min, Num(44)) <= reading.value
         /\ reading.value <= ExplicitOr(user.fasting_target_max, Num(72))
    ELSE IF reading.context = "post_meal"
    THEN /\ 0 <= reading.value
         /\ reading.value <= ExplicitOr(user.post_meal_target_max, Num(100))
    ELSE Num(39) <= reading.value /\ reading.value <= Num(111)

\* C19: calculate_target_compliance returns a value from 0 to 100, and 100.0
\* for a list of readings each of which satisfies the range of its own
\* context.
C19_ComplianceWithinBounds ==
    LatestCall("calculate_target_compliance") =>
        /\ 0 <= call.result
        /\ call.result <= Num(1000)
        /\ (/\ Len(call.readings) > 0
            /\ \A i \in 1..Len(call.readings) :
                  SatisfiesOwnRange(call.readings[i], call.user)) =>
              call.result = Num(1000)

\* C20: the compliance check counts a fasting or post_meal reading as
\* compliant exactly when its value lies inside the range _get_target_range
\* returns for the user and the context of the reading.
C20_ComplianceUsesClassifierRange ==
    LatestCall("calculate_target_compliance") =>
        \A i \in 1..Len(call.readings) :
            call.readings[i].context \in {"fasting", "post_meal"} =>
                (call.compliant[i] <=>
                    /\ _get_target_range(call.user, call.readings[i].context)[1]
                          <= call.readings[i].value
                    /\ call.readings[i].value
                          <= _get_target_range(call.user, call.readings[i].context)[2])

\* Whether a text matches a pattern of a tier.
MatchesTier(text, tier) ==
    SearchAny(Lower(text),
              CASE tier = "fasting" -> fasting_keywords
                [] tier = "pre_meal" -> pre_meal_keywords
                [] tier = "post_meal" -> post_meal_keywords
                [] tier = "random" -> random_keywords)

TierOrder == <<"fasting", "pre_meal", "post_meal", "random">>

IntentOrder == <<"record_glucose", "record_meal", "record_exercise",
                 "record_medication", "ask_value_status", "weekly_report",
                 "ask_education", "emotional_support", "risk_alert", "general">>

\* C22: _classify_intent returns one of the ten intents, the first in the
\* order record_glucose, record_meal, record_exercise, record_medication,
\* ask_value_status, weekly_report, ask_education, emotional_support,
\* risk_alert whose rule the message matches, and general when it matches
\* no rule.
C22_FirstMatchingIntent ==
    LatestCall("_classify_intent") =>
        /\ call.result \in Intents
        /\ \E i \in 1..Len(IntentOrder) :
              /\ call.result = IntentOrder[i]
              /\ IntentRule(call.text, IntentOrder[i])
              /\ \A j \in 1..(i - 1) : ~IntentRule(call.text, IntentOrder[j])

C22_Witness ==
    /\ LatestCall("_classify_intent")
    /\ call.result = "record_glucose"
    /\ IntentRule(call.text, "record_meal")

\* The columns of a reading analyze_glucose is not to write.
Measured(row) ==
    [user_id |-> row.user_id, value |-> row.value, unit |-> row.unit,
     timestamp |-> row.timestamp, context |-> row.context,
     meal_type |-> row.meal_type, hours_after_meal |-> row.hours_after_meal]

\* C23: analyze_glucose adds and removes no reading and leaves value, unit,
\* timestamp, context, meal type and hours after the meal of every reading
\* as they were; it writes risk_level and analysis_notes of no reading but
\* the one whose id it was given, and without a reading id it writes
\* nothing.
C23_AnalysisKeepsMeasurements ==
    LatestCall("analyze_glucose") =>
        /\ Len(readings) = Len(call.before.readings)
        /\ \A i \in 1..Len(readings) :
              /\ Measured(readings[i]) = Measured(call.before.readings[i])
              /\ i # call.reading_id => readings[i] = call.before.readings[i]
        /\ ~Truthy(call.reading_id) =>
              readings = call.before.readings /\ events = call.before.events

C23_Witness ==
    /\ LatestCall("analyze_glucose")
    /\ Len(readings) = 2
    /\ call.reading_id \in 1..Len(readings)
    /\ readings[call.reading_id] # call.before.readings[call.reading_id]

\* C30: analyze_glucose called for a user with a reading id writes onto a
\* reading of that user only, links the analysis event it adds to a reading
\* of that user only, and leaves the readings of every other user as they
\* were.
C30_AnalysisStaysWithOwner ==
    (LatestCall("analyze_glucose") /\ Truthy(call.reading_id)) =>
        /\ \A i \in 1..Len(readings) :
              readings[i].user_id # call.user_id =>
                  readings[i] = call.before.readings[i]
        /\ \A e \in (Len(call.before.events) + 1)..Len(events) :
              /\ events[e].glucose_reading_id \in 1..Len(readings)
              /\ readings[events[e].glucose_reading_id].user_id = events[e].user_id

\* The readings of the user in the seven days before the call, of the
\* context of the call when it has one.
TrendHistory ==
    SelectSeq(call.readings, LAMBDA r :
        /\ r.user_id = call.user_id
        /\ r.timestamp >= call.at - 168
        /\ (call.context # None => r.context = call.context))

\* C24: _analyze_trend returns insufficient_data when fewer than 2 readings
\* of the user, of the context when one is given, lie in the last 7 days;
\* otherwise up when the current value is above 1.10 times their average,
\* down when it is below 0.90 times their average, and stable in every
\* other case.
C24_TrendDirection ==
    LatestCall("_analyze_trend") =>
        LET n == Len(TrendHistory)
            total == SumValues(TrendHistory)
        IN  call.result.direction =
               (IF n < 2 THEN "insufficient_data"
                ELSE IF call.value * n * 100 > 110 * total THEN "up"
                ELSE IF call.value * n * 100 < 90 * total THEN "down"
                ELSE "stable")

C24_Witness ==
    /\ LatestCall("_analyze_trend")
    /\ call.context = "fasting"
    /\ Len(TrendHistory) = 2
    /\ Len(call.readings) = 3
    /\ call.result.direction = "down"

\* The items of the three meals, the compliance item and the frequency item
\* in the order of the claim.
ItemRank(item) ==
    CASE item \in {"breakfast_low_gi", "lunch_portion", "dinner_less_carbs"} -> 1
      [] item = "monitor_and_adjust" -> 2
      [] item = "measure_more_often" -> 3
      [] OTHER -> 4

\* A trigger of generate_action_items fired on the call.
ElevatedMealIn(patterns) ==
    \E i \in 1..Len(patterns) :
        /\ Contains(patterns[i].text, W_elevated)
        /\ \/ Contains(patterns[i].text, <<"zao", "can">>)
           \/ Contains(patterns[i].text, <<"wu", "can">>)
           \/ Contains(patterns[i].text, <<"wan", "can">>)
ComplianceTriggered ==
    calculate_target_compliance(call.readings, call.user) < Num(700)
FrequencyTriggered == Len(call.readings) < 7

\* C25: for a non-empty reading list generate_action_items returns 1 to 3
\* items; they are the generic pair exactly when no trigger fired; the meal
\* items come before the compliance item and the compliance item before
\* the frequency item, and an item whose trigger fired is missing only when
\* three items of earlier rank are returned.
C25_ActionItems ==
    (LatestCall("generate_action_items") /\ Len(call.readings) > 0) =>
        LET items == call.result
            has(item) == \E i \in 1..Len(items) : items[i] = item
        IN  /\ Len(items) \in 1..3
            /\ (items = <<"keep_habits", "monitor_regularly">>) <=>
                   (/\ ~ElevatedMealIn(call.patterns)
                    /\ ~ComplianceTriggered
                    /\ ~FrequencyTriggered)
            /\ \A i, j \in 1..Len(items) :
                   i < j => ItemRank(items[i]) <= ItemRank(items[j])
            /\ has("monitor_and_adjust") => ComplianceTriggered
            /\ has("measure_more_often") => FrequencyTriggered
            /\ (ComplianceTriggered /\ ~has("monitor_and_adjust")) =>
                   (Len(items) = 3 /\ \A i \in 1..3 : ItemRank(items[i]) = 1)
            /\ (FrequencyTriggered /\ ~has("measure_more_often")) =>
                   (Len(items) = 3 /\ \A i \in 1..3 : ItemRank(items[i]) <= 2)

C25_Witness ==
    /\ LatestCall("generate_action_items")
    /\ Len(call.readings) = 3
    /\ ComplianceTriggered
    /\ call.result = <<"breakfast_low_gi", "lunch_portion", "dinner_less_carbs">>

\* A note of identify_positive_progress is in the result of the call.
Notes(note) == \E i \in 1..Len(call.result) : call.result[i] = note

\* C26 as stated: compliance is noted exactly when the rate is >= 80,
\* frequency exactly when there are >= 14 readings, and stability exactly
\* when the population standard deviation of the values is < 1.5, for every
\* non-empty reading list whatever its length.
C26_StabilityAtAnyLength ==
    (LatestCall("identify_positive_progress") /\ Len(call.readings) > 0) =>
        /\ Notes("compliance") <=>
               calculate_target_compliance(call.readings, call.user) >= Num(800)
        /\ Notes("frequency") <=> Len(call.readings) >= 14
        /\ Notes("stability") <=> StdDevBelow15(call.readings)

\* C26: compliance is noted exactly when the rate is >= 80, frequency
\* exactly when there are >= 14 readings, and stability exactly when there
\* are at least 3 readings and the population standard deviation of their
\* values is < 1.5.
C26_StabilityFromThreeReadings ==
    (LatestCall("identify_positive_progress") /\ Len(call.readings) > 0) =>
        /\ Notes("compliance") <=>
               calculate_target_compliance(call.readings, call.user) >= Num(800)
        /\ Notes("frequency") <=> Len(call.readings) >= 14
        /\ Notes("stability") <=>
               (Len(call.readings) >= 3 /\ StdDevBelow15(call.readings))

C26_Witness ==
    /\ LatestCall("identify_positive_progress")
    /\ Len(call.readings) = 2
    /\ StdDevBelow15(call.readings)
    /\ call.result = <<"compliance">>

\* The number of patterns of the call with a text.
PatternCount(text) ==
    Cardinality({i \in 1..Len(call.result) : call.result[i].text = text})

\* The readings of a meal type in the call, and the two texts a meal type
\* can be flagged with.
MealReadings(meal_type) ==
    SelectSeq(call.readings, LAMBDA r : r.meal_type = meal_type)
ElevatedText(meal_type) == MealName(meal_type) \o W_after_average \o W_elevated
LowText(meal_type) == MealName(meal_type) \o W_after_average \o W_low

\* Each meal type is flagged at most once, elevated when its average is
\* above 8.0 and low when it is below 5.0, and the exercises are noted with
\* their number exactly when there are some.
MealsAndExercisesFlagged ==
    /\ \A m \in {"breakfast", "lunch", "dinner", "snack", "other"} :
           LET rows == MealReadings(m)
           IN  /\ PatternCount(ElevatedText(m)) + PatternCount(LowText(m)) <= 1
               /\ PatternCount(ElevatedText(m)) = 1 <=>
                      (Len(rows) > 0 /\ SumValues(rows) > Num(80) * Len(rows))
               /\ PatternCount(LowText(m)) = 1 <=>
                      (Len(rows) > 0 /\ SumValues(rows) < Num(50) * Len(rows))
    /\ PatternCount(P_exercise) = 1 <=> Len(call.exercises) # 0
    /\ \A i \in 1..Len(call.result) :
           call.result[i].text = P_exercise =>
               call.result[i].number = Len(call.exercises)

\* The readings of the first half of the week, which starts at hour 0.
FirstHalfOfWeek ==
    SelectSeq(call.readings, LAMBDA r : r.timestamp * 2 < HoursPerWeek)

\* C27 as stated: a rise (a fall) is flagged exactly when the average of
\* the last 3 readings is more than 10% above (below) the average of the
\* readings of the first half of the week; each meal type is flagged at
\* most once, and the exercises are noted exactly when there are some.
C27_TrendAgainstFirstHalf ==
    (LatestCall("identify_patterns") /\ Len(call.readings) > 0) =>
        LET last == LastThree(call.readings)
            half == FirstHalfOfWeek
        IN  /\ PatternCount(P_rising) = 1 <=>
                   /\ Len(half) > 0
                   /\ SumValues(last) * Len(half) * 10
                          > SumValues(half) * Len(last) * 11
            /\ PatternCount(P_falling) = 1 <=>
                   /\ Len(half) > 0
                   /\ SumValues(last) * Len(half) * 10
                          < SumValues(half) * Len(last) * 9
            /\ MealsAndExercisesFlagged

\* C27: a rise (a fall) is flagged exactly when there are at least 3
\* readings and the average of the last 3 is more than 10% above (below)
\* the average of the first 3 readings of the window; each meal type is
\* flagged at most once, elevated when its average is above 8.0 and low
\* when it is below 5.0, and the exercises are noted exactly when there are
\* some.
C27_TrendAgainstFirstThree ==
    (LatestCall("identify_patterns") /\ Len(call.readings) > 0) =>
        LET n == Len(call.readings)
            last == SubSeq(call.readings, n - 2, n)
            first == SubSeq(call.readings, 1, 3)
        IN  /\ PatternCount(P_rising) = 1 <=>
                   (n >= 3 /\ SumValues(last) * 10 > SumValues(first) * 11)
            /\ PatternCount(P_falling) = 1 <=>
                   (n >= 3 /\ SumValues(last) * 10 < SumValues(first) * 9)
            /\ PatternCount(P_rising) + PatternCount(P_falling) <= 1
            /\ MealsAndExercisesFlagged

\* A week whose last three readings are the first three as well: nothing
\* is flagged although the late readings are far above the early one.
C27_Witness ==
    /\ LatestCall("identify_patterns")
    /\ Len(call.readings) = 3
    /\ Len(FirstHalfOfWeek) = 1
    /\ call.readings[1].value = Num(60)
    /\ call.readings[3].value = Num(120)
    /\ PatternCount(P_rising) = 0
    /\ PatternCount(ElevatedText("dinner")) = 1
    /\ PatternCount(P_exercise) = 1

\* The mails sent to the address of mail i from its minute on, for `span`
\* minutes.
MailsWithin(i, span) ==
    {j \in 1..Len(mails) :
        /\ mails[j].email = mails[i].email
        /\ mails[i].at <= mails[j].at
        /\ mails[j].at < mails[i].at + span}

\* C28: for any address and any sequence of send-verify-code requests, at
\* most one code is issued within any minute and at most 5 within any 24
\* hours.
C28_RateLimits ==
    \A i \in 1..Len(mails) :
        /\ Cardinality(MailsWithin(i, 1)) <= 1
        /\ Cardinality(MailsWithin(i, 24 * 60)) <= 5

\* At most one code is sent to an address within any minute.
OneCodePerMinute ==
    \A i \in 1..Len(mails) : Cardinality(MailsWithin(i, 1)) <= 1

\* The positions of the readings of the user of worker p's turn in the
\* last `days` days, of the context of the reading the turn recorded.
HistoryOfTurn(p, days) ==
    {i \in 1..Len(readings) :
        /\ readings[i].user_id = out[p].user_id
        /\ readings[i].timestamp >= now - days * 24
        /\ (out[p].result.context # None =>
               readings[i].context = out[p].result.context)}

\* The readings at a set of positions, in their order.
ReadingsAt(positions) ==
    SelectSeq([i \in 1..Len(readings) |-> [pos |-> i, value |-> readings[i].value]],
              LAMBDA r : r.pos \in positions)

\* C29: in a record_glucose turn the new reading is committed before the
\* analysis queries the history: the readings that decide the direction of
\* the trend, and those of the comparison average, contain the reading the
\* turn recorded.
C29_AnalysisSeesNewReading ==
    \A p \in Procs :
        (/\ Latest(p)
         /\ out[p].intent = "record_glucose"
         /\ out[p].result.success) =>
            LET rid == out[p].result.reading_id
                week == HistoryOfTurn(p, 7)
                rows == ReadingsAt(week)
                n == Len(rows)
                trend == out[p].analysis.trend
            IN  /\ rid \notin 1..Len(out[p].before.readings)
                /\ rid \in week
                /\ trend.direction = "insufficient_data" <=> n < 2
                /\ n >= 2 => trend.average = SumValues(rows) \div n
                /\ out[p].analysis.comparison =
                       [period |-> "7d", average |-> SumValues(rows) \div n]

\* A turn whose trend is decided only because the reading it recorded
\* counts: the user had one reading before.
C29_Witness ==
    \E p \in Procs :
        /\ Latest(p)
        /\ out[p].intent = "record_glucose"
        /\ out[p].result.success
        /\ Len(out[p].before.readings) = 1
        /\ Cardinality(HistoryOfTurn(p, 7)) = 2
        /\ out[p].analysis.trend.direction = "stable"

====
